---- MODULE Spec2Model ----
(***************************************************************************)
(* A model of the monster turn engine of src/monster/melee2.c:             *)
(*   - monster_critical            (specification SpecCrit)                *)
(*   - the spell filter and cast   (specification SpecSpell)               *)
(*   - make_attack_normal          (specification SpecMelee)               *)
(*   - process_monsters / process_monster (specification Spec)             *)
(* Random rolls (randint0, randint1, one_in_) are inputs chosen with \E.   *)
(***************************************************************************)
EXTENDS Integers, Sequences, FiniteSets, TLC

VARIABLES
    crit,       \* one call of monster_critical: its inputs, rolls and result
    spell,      \* one call of make_attack_spell: monster, race, cave, outcome
    melee,      \* one call of make_attack_normal: race, player, lore, blow loop
    world       \* the cave, its monsters, the player, the lore and the scan
                \* of process_monsters

vars == <<crit, spell, melee, world>>

\* the value of each part of the state while another specification runs
CritIdle == [dice |-> 0, sides |-> 0, rolls |-> <<>>, dam |-> 0, sev |-> 0,
             called |-> FALSE]
SpellIdle == [phase |-> "idle"]
MeleeIdle == [phase |-> "idle"]
WorldIdle == [pc |-> "off"]

(***************************************************************************)
(* monster_critical (melee2.c 1274-1301)                                   *)
(***************************************************************************)

\* bounds of the critical-blow model
MaxDice == 2
MaxDam == 50
MaxRolls == 2

\* sides of the dice tried, and the outcomes of randint0(100) tried
SidesSet == {3, 6, 10, 12, 17, 24}
RollVals == {0, 1, 2, 7, 15, 30}

RECURSIVE SeqsUpTo(_, _)
\* all sequences over S of length exactly n
SeqsUpTo(S, n) ==
    IF n = 0 THEN {<<>>}
    ELSE {Append(q, x) : q \in SeqsUpTo(S, n - 1), x \in S}

\* the n-th randint0(100) of the roll stream; past the end of the stream the
\* roll is 99 (it passes no test), which ends the super-charge loop
RollAt(rolls, n) == IF n <= Len(rolls) THEN rolls[n] ELSE 99

RECURSIVE SuperCharge(_, _)
\* while (randint0(100) < 2) max++;   reading the stream from position n
SuperCharge(rolls, n) ==
    IF RollAt(rolls, n) < 2 THEN 1 + SuperCharge(rolls, n + 1) ELSE 0

\* mutant: the perfect-damage bonus is given one point below the maximum
monster_critical_early_bonus(dice, sides, dam, rolls) ==
    LET total == dice * sides
        max == (IF dam = total - 1 THEN 1 ELSE 0)
               + (IF dam >= 20 THEN SuperCharge(rolls, 1) ELSE 0)
    IN  IF dam < (total * 19) \div 20 THEN 0
        ELSE IF dam < 20 /\ RollAt(rolls, 1) >= dam THEN 0
        ELSE IF dam > 45 THEN 6 + max
        ELSE IF dam > 33 THEN 5 + max
        ELSE IF dam > 25 THEN 4 + max
        ELSE IF dam > 18 THEN 3 + max
        ELSE IF dam > 11 THEN 2 + max
        ELSE 1 + max

\* static int monster_critical(int dice, int sides, int dam); the weak-blow
\* roll is drawn only when dam < 20 and the super-charge rolls only when
\* dam >= 20, so both read the stream from its first roll
monster_critical(dice, sides, dam, rolls) ==
    LET total == dice * sides
        max == (IF dam = total THEN 1 ELSE 0)
               + (IF dam >= 20 THEN SuperCharge(rolls, 1) ELSE 0)
    IN  IF dam < (total * 19) \div 20 THEN 0
        ELSE IF dam < 20 /\ RollAt(rolls, 1) >= dam THEN 0
        ELSE IF dam > 45 THEN 6 + max
        ELSE IF dam > 33 THEN 5 + max
        ELSE IF dam > 25 THEN 4 + max
        ELSE IF dam > 18 THEN 3 + max
        ELSE IF dam > 11 THEN 2 + max
        ELSE 1 + max

CritInit ==
    /\ spell = SpellIdle
    /\ melee = MeleeIdle
    /\ world = WorldIdle
    /\ \E d \in 1..MaxDice, s \in SidesSet, r \in SeqsUpTo(RollVals, MaxRolls) :
        crit = [dice |-> d, sides |-> s, rolls |-> r, dam |-> 0, sev |-> 0,
                called |-> FALSE]

\* one call monster_critical(dice, sides, dam) under the fixed roll outcomes
Critical(dam) ==
    /\ UNCHANGED <<spell, melee, world>>
    /\ crit' = [crit EXCEPT !.dam = dam,
                         !.sev = monster_critical(crit.dice, crit.sides, dam, crit.rolls),
                         !.called = TRUE]

CritNext == \E dam \in 0..MaxDam : Critical(dam)

SpecCrit == CritInit /\ [][CritNext]_vars

\* C9 (as claimed): for fixed (dice, sides) and fixed roll outcomes, a call with
\* a larger damage never yields a smaller severity than a call with a smaller one
C9_MonotoneAnyDamage ==
    [][(crit.called /\ crit'.dam >= crit.dam) => crit'.sev >= crit.sev]_vars

\* C9 (amended): the same, for damages that do not exceed dice * sides
C9_MonotoneUpToTotal ==
    [][(crit.called /\ crit'.dam >= crit.dam
        /\ crit'.dam <= crit.dice * crit.sides) => crit'.sev >= crit.sev]_vars

\* a critical of severity 3 or more was computed for a perfect damage >= 20
C9_Witness ==
    crit.called /\ crit.dam = crit.dice * crit.sides /\ crit.dam >= 20
        /\ crit.sev >= 3 + 1 + Len(crit.rolls)

(***************************************************************************)
(* Spell filter and cast decision (melee2.c 35-36, 66-382)                 *)
(***************************************************************************)

\* bound: the races tried know at most MaxSpells spells
MaxSpells == 2

\* constants of the headers
MIN_NONINNATE_SPELL == 33
MAX_RANGE == 20
MAX_UCHAR == 255
MAX_SHORT == 32767

\* the monster spells modelled: index in the RSF_ enumeration and RST_ class
SpellTable ==
    [ARROW_1    |-> [id |-> 2,  type |-> "BOLT"],
     DRAIN_MANA |-> [id |-> 40, type |-> "ANNOY"],
     BO_FIRE    |-> [id |-> 45, type |-> "BOLT"],
     HASTE      |-> [id |-> 50, type |-> "HASTE"],
     HEAL       |-> [id |-> 52, type |-> "HEAL"],
     TELE_TO    |-> [id |-> 56, type |-> "ANNOY"],
     S_MONSTER  |-> [id |-> 70, type |-> "SUMMON"]]

Spells == DOMAIN SpellTable
RST_ALL == {"BOLT", "BALL", "BREATH", "ANNOY", "HASTE", "HEAL", "ESCAPE",
            "TACTIC", "SUMMON"}
\* RST_HASTE | RST_ANNOY | RST_ESCAPE | RST_HEAL | RST_TACTIC | RST_SUMMON
RST_DESPERATE == {"HASTE", "ANNOY", "ESCAPE", "HEAL", "TACTIC", "SUMMON"}

\* set_spells(f, types): keep only the spells of the given classes
set_spells(f, types) == {sp \in f : SpellTable[sp].type \in types}

\* test_spells(f, types): does f hold a spell of one of the classes
test_spells(f, types) == \E sp \in f : SpellTable[sp].type \in types

\* unset_spells(f, flags, race): drop the spells a known player flag blocks
unset_spells(f, flags, race) ==
    f \ (IF "IM_FIRE" \in flags THEN {"BO_FIRE"} ELSE {})

Abs(n) == IF n < 0 THEN -n ELSE n
Sgn(n) == IF n < 0 THEN -1 ELSE IF n > 0 THEN 1 ELSE 0

\* distance(y1, x1, y2, x2): the longer axis plus half the shorter one
distance(a, b) ==
    LET dy == Abs(a[1] - b[1])
        dx == Abs(a[2] - b[2])
    IN  IF dy > dx THEN dy + dx \div 2 ELSE dx + dy \div 2

\* Rectangle of cells
Rect(y1, y2, x1, x2) == {<<y, x>> : y \in y1..y2, x \in x1..x2}

\* the caves the spell model is tried in: bounds, the monster, the player,
\* the passable floor, the cells other monsters stand on, the glyphs
Layouts ==
    [room     |-> [h |-> 9, w |-> 9, mon |-> <<2, 2>>, player |-> <<6, 6>>,
                   floor |-> Rect(1, 7, 1, 7), occ |-> {}, ward |-> {}],
     blocked  |-> [h |-> 9, w |-> 9, mon |-> <<2, 2>>, player |-> <<6, 6>>,
                   floor |-> Rect(1, 7, 1, 7), occ |-> {<<4, 4>>}, ward |-> {}],
     corridor |-> [h |-> 5, w |-> 8, mon |-> <<2, 2>>, player |-> <<2, 5>>,
                   floor |-> Rect(2, 2, 1, 6), occ |-> {}, ward |-> {}],
     closet   |-> [h |-> 5, w |-> 6, mon |-> <<2, 2>>, player |-> <<2, 3>>,
                   floor |-> Rect(2, 2, 2, 3), occ |-> {}, ward |-> {}],
     walled   |-> [h |-> 9, w |-> 9, mon |-> <<2, 2>>, player |-> <<6, 6>>,
                   floor |-> Rect(1, 7, 1, 7) \ {<<4, 4>>}, occ |-> {}, ward |-> {}],
     longhall |-> [h |-> 5, w |-> 26, mon |-> <<2, 1>>, player |-> <<2, 23>>,
                   floor |-> Rect(2, 2, 1, 24), occ |-> {}, ward |-> {}]]

lay_in_bounds(lay, c) == c[1] >= 0 /\ c[1] < lay.h /\ c[2] >= 0 /\ c[2] < lay.w
lay_isprojectable(lay, c) == c \in lay.floor
lay_iswarded(lay, c) == c \in lay.ward
\* a floor cell with no monster and no player on it
lay_isempty(lay, c) ==
    c \in lay.floor /\ c \notin lay.occ /\ c # lay.mon /\ c # lay.player

\* the cells strictly between a and b, which lie on one row, column or diagonal
Between(a, b) ==
    LET n == IF Abs(b[1] - a[1]) > Abs(b[2] - a[2])
             THEN Abs(b[1] - a[1]) ELSE Abs(b[2] - a[2])
    IN  {<<a[1] + k * Sgn(b[1] - a[1]), a[2] + k * Sgn(b[2] - a[2])>> : k \in 1..(n - 1)}

\* projectable(y1, x1, y2, x2, PROJECT_NONE): within range, no wall between
projectable(lay, a, b) ==
    /\ distance(a, b) <= MAX_RANGE
    /\ \A c \in Between(a, b) : lay_isprojectable(lay, c)

\* clean_shot = projectable(.., PROJECT_STOP): no wall and no monster between
clean_shot(lay, a, b) ==
    projectable(lay, a, b) /\ \A c \in Between(a, b) : c \notin lay.occ

\* los(y1, x1, y2, x2) for the cells at most two steps away
los(lay, a, b) ==
    LET ay == Abs(b[1] - a[1])
        ax == Abs(b[2] - a[2])
        sy == Sgn(b[1] - a[1])
        sx == Sgn(b[2] - a[2])
    IN  IF ay < 2 /\ ax < 2 THEN TRUE
        ELSE IF ax = 0 \/ ay = 0 \/ ax = ay
             THEN \A c \in Between(a, b) : lay_isprojectable(lay, c)
        ELSE IF ax = 1
             THEN lay_isprojectable(lay, <<a[1] + sy, a[2]>>)
                  \/ lay_isprojectable(lay, <<a[1] + sy, a[2] + sx>>)
        ELSE lay_isprojectable(lay, <<a[1], a[2] + sx>>)
             \/ lay_isprojectable(lay, <<a[1] + sy, a[2] + sx>>)

\* mutant: there is always room for a summoned creature
summon_possible_roomy(lay, c1) == lay_in_bounds(lay, c1)

\* static bool summon_possible(int y1, int x1)
summon_possible(lay, c1) ==
    \E c \in Rect(c1[1] - 2, c1[1] + 2, c1[2] - 2, c1[2] + 2) :
        /\ lay_in_bounds(lay, c)
        /\ distance(c1, c) <= 2
        /\ ~lay_iswarded(lay, c)
        /\ lay_isempty(lay, c) /\ los(lay, c1, c)

\* what the code computes from the cave for the monster of each layout
LayoutFacts ==
    [n \in DOMAIN Layouts |->
        [cdis |-> distance(Layouts[n].mon, Layouts[n].player),
         projectable |-> projectable(Layouts[n], Layouts[n].mon, Layouts[n].player),
         clean_shot |-> clean_shot(Layouts[n], Layouts[n].mon, Layouts[n].player),
         summon_possible |-> summon_possible(Layouts[n], Layouts[n].mon)]]

\* mutant: a full-health monster gains HEAL instead of losing it
remove_bad_spells_adds(m, race, learn, f, r) ==
    [f |-> IF m.hp >= m.maxhp THEN f \cup {"HEAL"} ELSE f, known |-> m.known_pflags]

\* static void remove_bad_spells(m_ptr, f): the new f and the monster's
\* known_pflags (wiped when the one_in_(100) roll r.forget says so)
remove_bad_spells(m, race, learn, f, r) ==
    IF "STUPID" \in race.flags THEN [f |-> f, known |-> m.known_pflags]
    ELSE
    LET f2a == IF m.hp >= m.maxhp THEN f \ {"HEAL"} ELSE f
        f2b == IF m.fast > 10 THEN f2a \ {"HASTE"} ELSE f2a
        f2c == IF m.cdis = 1 THEN f2b \ {"TELE_TO"} ELSE f2b
        known == IF learn /\ r.forget THEN {} ELSE m.known_pflags
        smart == IF learn THEN m.smart ELSE {}
        ai_flags == IF learn THEN known ELSE {}
        f2d == IF ai_flags # {} THEN unset_spells(f2c, ai_flags, race) ELSE f2c
        f2e == IF "IMM_MANA" \in smart
                  /\ r.mana < 50 * (IF "SMART" \in race.flags THEN 2 ELSE 1)
               THEN f2d \ {"DRAIN_MANA"} ELSE f2d
    IN  [f |-> f2e, known |-> known]

\* mutant: each pass of the filter drops the lowest spell that is left
SpellFilter_dropsOne(m, race, facts, learn, f0, r) ==
    [f |-> f0 \ {sp \in f0 : \A o \in f0 : SpellTable[sp].id <= SpellTable[o].id},
     known |-> m.known_pflags]

\* the filter of make_attack_spell (melee2.c 278-304) applied to the set f0:
\* desperation, remove_bad_spells, bolt and summon pruning; facts holds what
\* clean_shot and summon_possible give for the monster's cell
SpellFilter(m, race, facts, learn, f0, r) ==
    LET f1 == IF "SMART" \in race.flags /\ m.hp < m.maxhp \div 10 /\ r.desp < 50
              THEN set_spells(f0, RST_DESPERATE) ELSE f0
        rb == remove_bad_spells(m, race, learn, f1, r)
        f2 == IF "STUPID" \notin race.flags /\ test_spells(rb.f, {"BOLT"})
                 /\ ~facts.clean_shot
              THEN set_spells(rb.f, RST_ALL \ {"BOLT"}) ELSE rb.f
        f3 == IF "STUPID" \notin race.flags /\ ~facts.summon_possible
              THEN set_spells(f2, RST_ALL \ {"SUMMON"}) ELSE f2
    IN  [f |-> f3, known |-> rb.known]

RECURSIVE SortById(_)
\* the spells of f in the order of the RSF_ enumeration
SortById(f) ==
    IF f = {} THEN <<>>
    ELSE LET lo == CHOOSE sp \in f : \A o \in f : SpellTable[sp].id <= SpellTable[o].id
         IN  <<lo>> \o SortById(f \ {lo})

\* mutant: the spell is picked among the race's spells, not the filtered ones
choose_attack_spell_unfiltered(race, f, pick) ==
    IF race.spell_flags = {} THEN "NONE"
    ELSE SortById(race.spell_flags)[(pick % Cardinality(race.spell_flags)) + 1]

\* static int choose_attack_spell(m_ptr, f); pick is randint0(num)
choose_attack_spell(race, f, pick) ==
    IF f = {} THEN "NONE" ELSE SortById(f)[(pick % Cardinality(f)) + 1]

\* mon_inc_timed(m_ptr, MON_TMD_FAST, 50, 0, FALSE)
mon_inc_fast(m, amount) == [m EXCEPT !.fast = m.fast + amount]

\* mutant: a counter at its limit starts again from 0
SatInc_wraps(c, max) == IF c < max THEN c + 1 ELSE 0

\* a saturating lore counter: if (c < max) c++
SatInc(c, max) == IF c < max THEN c + 1 ELSE c

\* the combinations of hit points and haste tried
SpellBodies ==
    {[hp |-> 20, maxhp |-> 20, fast |-> 0],
     [hp |-> 10, maxhp |-> 20, fast |-> 0],
     [hp |-> 1,  maxhp |-> 20, fast |-> 0],
     [hp |-> 10, maxhp |-> 20, fast |-> 11]}

\* the combinations tried of the learn option, what the monster has learned,
\* race level, fear, visibility and the lore counters
SpellConds ==
    {[learn |-> FALSE, known |-> {"IM_FIRE"}, smart |-> {"IMM_MANA"},
      level |-> 0,  fear |-> 0, ml |-> TRUE,  blind |-> FALSE, unaware |-> FALSE, cast |-> 0],
     [learn |-> TRUE,  known |-> {"IM_FIRE"}, smart |-> {},
      level |-> 5,  fear |-> 3, ml |-> TRUE,  blind |-> FALSE, unaware |-> TRUE,  cast |-> 255],
     [learn |-> TRUE,  known |-> {},          smart |-> {"IMM_MANA"},
      level |-> 97, fear |-> 0, ml |-> FALSE, blind |-> TRUE,  unaware |-> FALSE, cast |-> 254]}

SpellStart(layname, flags, sf, body, cnd, gate) ==
    [phase |-> "ready",
     lay |-> layname,
     facts |-> LayoutFacts[layname],
     learn |-> cnd.learn,
     race |-> [flags |-> flags, level |-> cnd.level, spell_flags |-> sf,
               freq_innate |-> IF gate = "nofreq" THEN 0 ELSE 50,
               freq_spell |-> IF gate = "nofreq" THEN 1 ELSE 50],
     m |-> [hp |-> body.hp, maxhp |-> body.maxhp, fast |-> body.fast,
            fear |-> cnd.fear, conf |-> IF gate = "conf" THEN 2 ELSE 0,
            cdis |-> LayoutFacts[layname].cdis,
            nice |-> (gate = "nice"), unaware |-> cnd.unaware, ml |-> cnd.ml,
            known_pflags |-> cnd.known, smart |-> cnd.smart],
     p |-> [leaving |-> (gate = "leaving"), blind |-> cnd.blind, is_dead |-> FALSE],
     lore |-> [cast_innate |-> cnd.cast, cast_spell |-> cnd.cast,
               spell_flags |-> {}, deaths |-> 0],
     ret |-> FALSE, filtered |-> FALSE, f |-> {}, thrown |-> "NONE",
     failed |-> FALSE, delegated |-> "NONE", f2 |-> {}, same |-> FALSE,
     roll |-> -1, fast0 |-> body.fast]

\* the layouts tried with one body only
SpellGates == {"leaving", "conf", "nice", "nofreq", "walled", "longhall", "corridor"}

SpellInit ==
    /\ crit = CritIdle
    /\ melee = MeleeIdle
    /\ world = WorldIdle
    /\ \E flags \in {{}, {"STUPID"}, {"SMART"}, {"STUPID", "SMART"}},
          sf \in {x \in SUBSET Spells : Cardinality(x) <= MaxSpells},
          cnd \in SpellConds :
          \/ \E layname \in {"room", "blocked", "closet"}, body \in SpellBodies :
                spell = SpellStart(layname, flags, sf, body, cnd, "none")
          \/ \E gate \in SpellGates :
                spell = SpellStart(IF gate \in DOMAIN Layouts THEN gate ELSE "room",
                                   flags, sf, [hp |-> 10, maxhp |-> 20, fast |-> 0],
                                   cnd, gate)

\* the outcomes of the random rolls of the filter; a roll the code does not
\* draw for this monster is left at one value
FilterRolls(s) ==
    [desp : IF "SMART" \in s.race.flags /\ s.m.hp < s.m.maxhp \div 10
            THEN {25, 75} ELSE {75},
     forget : IF s.learn /\ "STUPID" \notin s.race.flags THEN BOOLEAN ELSE {FALSE},
     mana : IF s.learn /\ "IMM_MANA" \in s.m.smart /\ "STUPID" \notin s.race.flags
            THEN {25, 75} ELSE {75}]

\* the outcomes of the other rolls of make_attack_spell, and whether the
\* spell handed to do_mon_spell kills the player
CastRolls(s) ==
    [cast : {25, 75}, pick : 0..(MaxSpells - 1),
     fail : IF "STUPID" \in s.race.flags THEN {0, 99} ELSE {0, 24, 30, 99},
     dies : BOOLEAN]

\* mutant: the race level is used as it is
spell_rlev_unclamped(race) == race.level

\* rlev = ((m_ptr->race->level >= 1) ? m_ptr->race->level : 1);
spell_rlev(race) == IF race.level >= 1 THEN race.level ELSE 1

\* the spell failure rate of make_attack_spell, in percent
failrate(race, m) ==
    IF "STUPID" \in race.flags THEN 0
    ELSE 25 - (spell_rlev(race) + 3) \div 4 + (IF m.fear # 0 THEN 20 ELSE 0)

\* make_attack_spell from "Choose a spell to cast" on: the spell is thrown
\* (melee2.c 318-381); f is the filtered set and m the monster after the filter
ThrowSpell(s, m, f, c) ==
    LET race == s.race
        seen == ~s.p.blind /\ m.ml
        thrown == choose_attack_spell(race, f, c.pick)
        m1 == [m EXCEPT !.unaware = FALSE]
        base == [s EXCEPT !.phase = "cast", !.filtered = TRUE, !.f = f,
                          !.thrown = thrown]
        innate == SpellTable[thrown].id < MIN_NONINNATE_SPELL
        drawn == [base EXCEPT !.roll = IF innate THEN -1 ELSE c.fail]
        dead == thrown # "HASTE" /\ c.dies
        lore1 == IF seen
                 THEN [s.lore EXCEPT
                          !.spell_flags = @ \cup {thrown},
                          !.cast_innate = IF innate THEN SatInc(@, MAX_UCHAR) ELSE @,
                          !.cast_spell = IF innate THEN @ ELSE SatInc(@, MAX_UCHAR)]
                 ELSE s.lore
        lore2 == IF dead THEN [lore1 EXCEPT !.deaths = SatInc(@, MAX_SHORT)] ELSE lore1
    IN  IF thrown = "NONE" THEN [base EXCEPT !.ret = FALSE, !.m = m]
        ELSE IF ~innate /\ c.fail < failrate(race, m)
             THEN [drawn EXCEPT !.ret = TRUE, !.failed = TRUE, !.m = m1]
        ELSE [drawn EXCEPT
                 !.ret = TRUE,
                 !.m = IF thrown = "HASTE" THEN mon_inc_fast(m1, 50) ELSE m1,
                 !.delegated = IF thrown = "HASTE" THEN "NONE" ELSE thrown,
                 !.p = [@ EXCEPT !.is_dead = dead],
                 !.lore = lore2]

\* bool make_attack_spell(struct monster *m_ptr) under the filter rolls r and
\* the other rolls c
make_attack_spell(s, r, c) ==
    LET m == s.m
        race == s.race
        facts == s.facts
        chance == (race.freq_innate + race.freq_spell) \div 2
        refused == [s EXCEPT !.phase = "cast", !.ret = FALSE]
        flt == SpellFilter(m, race, facts, s.learn, race.spell_flags, r)
        m1 == [m EXCEPT !.known_pflags = flt.known]
    IN  IF s.p.leaving THEN refused
        ELSE IF m.conf # 0 THEN refused
        ELSE IF m.nice THEN refused
        ELSE IF chance = 0 THEN refused
        ELSE IF c.cast >= chance THEN refused
        ELSE IF m.cdis > MAX_RANGE THEN refused
        ELSE IF ~facts.projectable THEN refused
        ELSE IF flt.f = {}
             THEN [refused EXCEPT !.filtered = TRUE, !.m = m1]
        ELSE ThrowSpell(s, m1, flt.f, c)

\* one call of make_attack_spell
MakeAttackSpell ==
    /\ spell.phase = "ready"
    /\ \E r \in FilterRolls(spell), c \in CastRolls(spell) :
          spell' = make_attack_spell(spell, r, c)
    /\ UNCHANGED <<crit, melee, world>>

\* the filter applied to the race's spells under the rolls r1, then to its own
\* output, for the monster as the first application left it, under the rolls r2
FilterTwice ==
    /\ spell.phase = "ready"
    /\ \E r1 \in FilterRolls(spell), r2 \in FilterRolls(spell) :
          LET facts == spell.facts
              a == SpellFilter(spell.m, spell.race, facts, spell.learn,
                               spell.race.spell_flags, r1)
              m1 == [spell.m EXCEPT !.known_pflags = a.known]
              b == SpellFilter(m1, spell.race, facts, spell.learn, a.f, r2)
          IN  spell' = [spell EXCEPT !.phase = "twice", !.filtered = TRUE,
                                     !.f = a.f, !.f2 = b.f, !.m = m1,
                                     !.same = (r1 = r2)]
    /\ UNCHANGED <<crit, melee, world>>

SpellNext == MakeAttackSpell \/ FilterTwice

SpecSpell == SpellInit /\ [][SpellNext]_vars

\* C7: the filtered spell set is a subset of the race's spell flags, and the
\* spell thrown (cast, failed or handed to do_mon_spell) is in the filtered set
C7_FilterSubsetAndThrownMember ==
    (spell.phase = "cast" /\ spell.filtered) =>
        /\ spell.f \subseteq spell.race.spell_flags
        /\ spell.ret => (spell.thrown \in spell.f
                         /\ spell.thrown \in spell.race.spell_flags)
        /\ spell.delegated # "NONE" => spell.delegated \in spell.f

\* a spell was thrown after the filter had removed another spell of the race
C7_Witness ==
    spell.phase = "cast" /\ spell.ret /\ spell.thrown # "NONE"
        /\ spell.f # spell.race.spell_flags /\ spell.delegated = spell.thrown

\* C8 (as claimed): the filter applied to its own output yields the same set,
\* whatever the random rolls of the two applications
C8_IdempotentAnyRolls ==
    spell.phase = "twice" => spell.f2 = spell.f

\* C8 (amended): the filter applied to its own output yields the same set when
\* the rolls of the second application come out as those of the first
C8_IdempotentSameRolls ==
    (spell.phase = "twice" /\ spell.same) => spell.f2 = spell.f

\* the filter removed a spell and its second application, under the same
\* rolls, was made on that smaller set
C8_Witness ==
    spell.phase = "twice" /\ spell.same /\ spell.f # {}
        /\ spell.f # spell.race.spell_flags /\ spell.f2 = spell.f

\* the monster of the layout stands in a corridor one cell wide: its four
\* diagonal neighbours are walls, and so are its neighbours on one axis
InCorridor(lay) ==
    LET y == lay.mon[1]
        x == lay.mon[2]
    IN  /\ \A dy \in {-1, 1}, dx \in {-1, 1} : <<y + dy, x + dx>> \notin lay.floor
        /\ \/ <<y - 1, x>> \notin lay.floor /\ <<y + 1, x>> \notin lay.floor
           \/ <<y, x - 1>> \notin lay.floor /\ <<y, x + 1>> \notin lay.floor

\* the grids a summoned creature could appear on: floor within two steps of
\* the monster, in its line of sight, free of monsters, player and glyphs
FreeGridsNear(lay) ==
    {c \in lay.floor :
        /\ distance(lay.mon, c) <= 2
        /\ c \notin lay.occ \cup lay.ward \cup {lay.mon, lay.player}
        /\ los(lay, lay.mon, c)}

SummonsOf(f) == {sp \in f : SpellTable[sp].type = "SUMMON"}

\* C13 (as claimed): for a monster without STUPID standing in a corridor one
\* cell wide whose diagonal neighbours are all walls, the filtered spell set
\* holds no SUMMON spell
C13_CorridorNeverSummons ==
    (spell.filtered /\ "STUPID" \notin spell.race.flags
        /\ InCorridor(Layouts[spell.lay])) => SummonsOf(spell.f) = {}

\* C13 (amended): for a monster without STUPID the filtered spell set holds
\* no SUMMON spell when no free grid lies within two steps of it in its line
\* of sight, and keeps every SUMMON spell of the race otherwise, in a
\* corridor as anywhere else
C13_SummonsNeedFreeGrid ==
    (spell.filtered /\ "STUPID" \notin spell.race.flags) =>
        SummonsOf(spell.f) = IF FreeGridsNear(Layouts[spell.lay]) = {} THEN {}
                             ELSE SummonsOf(spell.race.spell_flags)

\* a summoner in a dead end with the player on the only other floor grid had
\* its SUMMON spell filtered out and threw another spell
C13_Witness ==
    spell.phase = "cast" /\ spell.filtered /\ "STUPID" \notin spell.race.flags
        /\ InCorridor(Layouts[spell.lay])
        /\ FreeGridsNear(Layouts[spell.lay]) = {}
        /\ "S_MONSTER" \in spell.race.spell_flags
        /\ "S_MONSTER" \notin spell.f /\ spell.ret

\* hp below a tenth of maxhp, the precondition of the desperate restriction
Desperate(s) == "SMART" \in s.race.flags /\ s.m.hp < s.m.maxhp \div 10

\* C14 (as claimed): for a race with STUPID the set the spell is picked from
\* is the race's full spell set, whatever the monster's hit points, haste,
\* distance, other race flags, learned flags, clean shot or summoning room
C14_StupidKeepsAllSpells ==
    (spell.filtered /\ "STUPID" \in spell.race.flags) =>
        spell.f = spell.race.spell_flags

\* C14 (amended): for a race with STUPID the set the spell is picked from is
\* the race's full spell set, unless the race is also SMART and the monster
\* is below a tenth of its hit points: then it is either the full set or the
\* race's spells of the classes HASTE, ANNOY, ESCAPE, HEAL, TACTIC, SUMMON
C14_StupidKeepsAllUnlessDesperate ==
    (spell.filtered /\ "STUPID" \in spell.race.flags) =>
        IF Desperate(spell)
        THEN spell.f \in {spell.race.spell_flags,
                          set_spells(spell.race.spell_flags, RST_DESPERATE)}
        ELSE spell.f = spell.race.spell_flags

\* a STUPID monster at full hit points, hasted, with a monster in the line of
\* fire, picked from its full set of a HEAL and a BOLT spell
C14_Witness ==
    spell.phase = "cast" /\ spell.filtered /\ spell.race.flags = {"STUPID"}
        /\ spell.race.spell_flags = {"HEAL", "BO_FIRE"}
        /\ spell.f = spell.race.spell_flags
        /\ spell.m.hp = spell.m.maxhp /\ ~spell.facts.clean_shot
        /\ spell.thrown = "HEAL" /\ spell.ret

(***************************************************************************)
(* make_attack_normal (melee2.c 2278-2522) and the blow effect handlers    *)
(***************************************************************************)

\* bound: the number of blows a race of the model has
MaxBlows == 2

\* the size of race->blow[] and lore->blows[]
MONSTER_BLOW_MAX == 4

\* list-blow-methods.h: does the method cut, stun, give a miss message
MethodTable ==
    [HIT   |-> [cut |-> TRUE,  stun |-> TRUE,  miss |-> TRUE],
     CRUSH |-> [cut |-> FALSE, stun |-> TRUE,  miss |-> TRUE],
     TOUCH |-> [cut |-> FALSE, stun |-> FALSE, miss |-> TRUE],
     MOAN  |-> [cut |-> FALSE, stun |-> FALSE, miss |-> FALSE]]

\* list-blow-effects.h: the power of each effect; an effect id that is not in
\* the list (RBE_MAX or above) is written "RBE_MAX"
EffectTable ==
    [NONE     |-> [power |-> 0],
     HURT     |-> [power |-> 60],
     EAT_GOLD |-> [power |-> 5],
     SHATTER  |-> [power |-> 60]]

monster_blow_method_cut(method) == MethodTable[method].cut
monster_blow_method_stun(method) == MethodTable[method].stun
monster_blow_method_miss(method) == MethodTable[method].miss
\* static int monster_blow_effect_power(int effect): 0 for an id out of range
monster_blow_effect_power(effect) ==
    IF effect \notin DOMAIN EffectTable THEN 0 ELSE EffectTable[effect].power

\* an unused slot of race->blow[] (method 0)
NoBlow == [method |-> "NONE", effect |-> "NONE", d_dice |-> 0, d_side |-> 0]

\* the blows a race of the model is built from
BlowKinds ==
    {[method |-> "HIT",   effect |-> "HURT",    d_dice |-> 3, d_side |-> 10],
     [method |-> "CRUSH", effect |-> "SHATTER", d_dice |-> 3, d_side |-> 10],
     [method |-> "MOAN",  effect |-> "NONE",    d_dice |-> 0, d_side |-> 0],
     [method |-> "TOUCH", effect |-> "EAT_GOLD", d_dice |-> 1, d_side |-> 4],
     [method |-> "HIT",   effect |-> "RBE_MAX", d_dice |-> 3, d_side |-> 10]}

RECURSIVE PadBlows(_)
\* a blow list filled up to MONSTER_BLOW_MAX slots with unused slots
PadBlows(q) == IF Len(q) >= MONSTER_BLOW_MAX THEN q ELSE PadBlows(Append(q, NoBlow))

\* the race->blow[] arrays tried: up to MaxBlows blows, then unused slots
BlowLists ==
    {PadBlows(q) : q \in UNION {SeqsUpTo(BlowKinds, n) :
                                   n \in 0..(IF MaxBlows < MONSTER_BLOW_MAX
                                             THEN MaxBlows ELSE MONSTER_BLOW_MAX)}}

\* static int adjust_dam_armor(int damage, int ac)
adjust_dam_armor(damage, ac) ==
    damage - (damage * (IF ac < 240 THEN ac ELSE 240)) \div 400

\* take_hit(p, damage, ddesc): the player loses hit points and, below zero,
\* dies and leaves the level
take_hit(p, damage) ==
    LET chp == p.chp - damage
    IN  IF chp < 0 THEN [p EXCEPT !.chp = chp, !.is_dead = TRUE, !.leaving = TRUE]
        ELSE [p EXCEPT !.chp = chp]

\* earthquake(fy, fx, 8) as far as the player goes: it may push the player
\* to a neighbouring cell
earthquake(p, moved) == IF moved THEN [p EXCEPT !.px = @ + 1] ELSE p

\* player_inc_timed(p, idx, k, TRUE, TRUE) for the CUT and STUN timers
player_inc_cut(p, k) == [p EXCEPT !.cut = @ + k]
player_inc_stun(p, k) == [p EXCEPT !.stun = @ + k]

\* melee_handler_for_blow_effect(effect): the handler of the effect
melee_handler_for_blow_effect(effect) ==
    CASE effect = "NONE" -> "melee_effect_handler_none"
      [] effect = "HURT" -> "melee_effect_handler_hurt"
      [] effect = "EAT_GOLD" -> "melee_effect_handler_eat_gold"
      [] effect = "SHATTER" -> "melee_effect_handler_shatter"
      [] OTHER -> "NULL"

\* static void melee_effect_handler_none(context)
melee_effect_handler_none(context, p) ==
    [context |-> [context EXCEPT !.obvious = TRUE, !.damage = 0], p |-> p]

\* static void melee_effect_handler_hurt(context)
melee_effect_handler_hurt(context, p) ==
    LET damage == adjust_dam_armor(context.damage, context.ac)
    IN  [context |-> [context EXCEPT !.obvious = TRUE, !.damage = damage],
         p |-> take_hit(p, damage)]

\* static void melee_effect_handler_shatter(context); moved is whether the
\* earthquake pushes the player away
melee_effect_handler_shatter(context, p, moved) ==
    LET damage == adjust_dam_armor(context.damage, context.ac)
        p1 == take_hit(p, damage)
        p2 == IF damage > 23 THEN earthquake(p1, moved) ELSE p1
        pushed == p2.px # p1.px \/ p2.py # p1.py
    IN  [context |-> [context EXCEPT !.obvious = TRUE, !.damage = damage,
                                     !.do_break = @ \/ pushed],
         p |-> p2]

\* randint1(n): its smallest or its largest outcome
randint1(n, lo) == IF lo THEN 1 ELSE n

\* the largest amount one gold object holds
MAX_PVAL == 32767

\* "While we have gold, put it in objects" (melee2.c 1706-1725): the gold
\* objects made from the amount gold, each stamped ORIGIN_STOLEN
RECURSIVE StolenGold(_)
StolenGold(gold) ==
    IF gold <= 0 THEN <<>>
    ELSE <<[tval |-> "TV_GOLD", origin |-> "ORIGIN_STOLEN",
            pval |-> IF gold > MAX_PVAL THEN MAX_PVAL ELSE gold]>>
         \o StolenGold(gold - (IF gold > MAX_PVAL THEN MAX_PVAL ELSE gold))

\* monster_carry(m_ptr, &o) for each object of objs in turn: the monster
\* holds them after the ones it held before
monster_carry(m, objs) == [m EXCEPT !.held = @ \o objs]

\* mutant: the amount taken is not cut down to what the player has
melee_effect_handler_eat_gold_unclamped(context, p, m, r) ==
    LET p1 == take_hit(p, context.damage)
        gold == p1.au \div 10 + 25
    IN  [context |-> [context EXCEPT !.obvious = TRUE, !.blinked = TRUE],
         p |-> [p1 EXCEPT !.au = @ - gold],
         m |-> monster_carry(m, StolenGold(gold))]

\* static void melee_effect_handler_eat_gold(context); r.save is the roll of
\* the saving throw, r.blink randint0(3), r.lo and r.lo2 the two randint1;
\* p.dex_safe is adj_dex_safe[stat_ind[A_DEX]]
melee_effect_handler_eat_gold(context, p, m, r) ==
    LET p1 == take_hit(p, context.damage)
        saved == ~p1.paralyzed /\ r.save < p1.dex_safe + p1.lev
        gold0 == p1.au \div 10 + randint1(25, r.lo)
        gold1 == IF gold0 < 2 THEN 2 ELSE gold0
        gold2 == IF gold1 > 5000 THEN p1.au \div 20 + randint1(3000, r.lo2) ELSE gold1
        gold == IF gold2 > p1.au THEN p1.au ELSE gold2
        p2 == [p1 EXCEPT !.au = @ - gold]
    IN  IF saved
        THEN [context |-> [context EXCEPT !.obvious = TRUE,
                                          !.blinked = @ \/ r.blink # 0],
              p |-> p1, m |-> m]
        ELSE IF gold <= 0
        THEN [context |-> [context EXCEPT !.obvious = TRUE], p |-> p2, m |-> m]
        ELSE [context |-> [context EXCEPT !.obvious = TRUE, !.blinked = TRUE],
              p |-> p2, m |-> monster_carry(m, StolenGold(gold))]

\* the CUT added for a critical of severity tmp (melee2.c 2437-2447)
CutAmount(tmp, lo) ==
    CASE tmp = 0 -> 0
      [] tmp = 1 -> randint1(5, lo)
      [] tmp = 2 -> randint1(5, lo) + 5
      [] tmp = 3 -> randint1(20, lo) + 20
      [] tmp = 4 -> randint1(50, lo) + 50
      [] tmp = 5 -> randint1(100, lo) + 100
      [] tmp = 6 -> 300
      [] OTHER -> 500

\* the STUN added for a critical of severity tmp (melee2.c 2460-2470)
StunAmount(tmp, lo) ==
    CASE tmp = 0 -> 0
      [] tmp = 1 -> randint1(5, lo)
      [] tmp = 2 -> randint1(10, lo) + 10
      [] tmp = 3 -> randint1(20, lo) + 20
      [] tmp = 4 -> randint1(30, lo) + 30
      [] tmp = 5 -> randint1(40, lo) + 40
      [] tmp = 6 -> 100
      [] OTHER -> 200

\* "Save any changes made in the handler for later use" (melee2.c 2410-2412)
\* copies obvious, blinked and damage out of the context; do_break is not
\* among them, so the local keeps the value it was initialised with
SavedDoBreak(do_break, context) == do_break

\* the outcomes of the random rolls of one blow: test_hit, the repel roll,
\* damroll (least or greatest), whether the earthquake pushes the player,
\* the cut-or-stun roll, the rolls of monster_critical, randint1 (1 or n);
\* for a blow that takes gold also the saving throw, randint0(3) of the
\* blink and the second randint1
MeleeRolls ==
    [hit : BOOLEAN, repel : {0, 99}, maxdam : BOOLEAN, moved : BOOLEAN,
     coin : {0, 99}, crit : {<<>>, <<0>>}, lo : BOOLEAN,
     save : {99}, blink : {0}, lo2 : {TRUE}]
    \cup
    [hit : {TRUE}, repel : {0, 99}, maxdam : BOOLEAN, moved : {FALSE},
     coin : {0}, crit : {<<>>}, lo : BOOLEAN,
     save : {0, 99}, blink : {0, 2}, lo2 : BOOLEAN]

\* mutant: a blow whose effect has power 0 lands without a hit roll
BlowHits_byPower(effect, roll) == monster_blow_effect_power(effect) = 0 \/ roll

\* if (!effect || check_hit(p, power, rlev)); roll is what check_hit returns
BlowHits(effect, roll) == effect = "NONE" \/ roll

\* mutant: a blow is counted only when it was obvious or did damage
CountsBlow_onlyNoticed(visible, obvious, damage, seen) ==
    visible /\ (obvious \/ damage # 0)

\* whether the lore counts the blow: a visible monster's blow that was
\* obvious, did damage, or has been counted more than 10 times already
CountsBlow(visible, obvious, damage, seen) ==
    visible /\ (obvious \/ damage # 0 \/ seen > 10)

\* the body of the blow loop for blow ap_cnt, from "Extract visibility" to
\* "Skip the other blows if necessary" (melee2.c 2333-2501)
BlowIteration(s, r) ==
    LET race == s.race
        blow == race.blow[s.ap_cnt + 1]
        p == s.p
        rlev == IF race.level >= 1 THEN race.level ELSE 1
        visible == s.m.ml \/ "HAS_LIGHT" \in race.flags
        hits == BlowHits(blow.effect, r.hit)
        lore1 == IF hits /\ p.protevil > 0 /\ s.m.ml
                 THEN [s.lore EXCEPT !.flags = @ \cup {"EVIL"}] ELSE s.lore
        repelled == /\ hits
                    /\ p.protevil > 0
                    /\ "EVIL" \in race.flags
                    /\ p.lev >= rlev
                    /\ r.repel + p.lev > 50
        rolled == IF blow.d_dice > 0 /\ blow.d_side > 0
                  THEN (IF r.maxdam THEN blow.d_dice * blow.d_side ELSE blow.d_dice)
                  ELSE 0
        context0 == [rlev |-> rlev, method |-> blow.method, ac |-> p.ac,
                     obvious |-> TRUE, blinked |-> s.blinked, do_break |-> FALSE,
                     damage |-> rolled]
        effect_handler == melee_handler_for_blow_effect(blow.effect)
        h == CASE effect_handler = "melee_effect_handler_none" ->
                     melee_effect_handler_none(context0, p)
               [] effect_handler = "melee_effect_handler_hurt" ->
                     melee_effect_handler_hurt(context0, p)
               [] effect_handler = "melee_effect_handler_shatter" ->
                     melee_effect_handler_shatter(context0, p, r.moved)
               [] effect_handler = "melee_effect_handler_eat_gold" ->
                     melee_effect_handler_eat_gold(context0, p, s.m, r)
               [] OTHER -> [context |-> context0, p |-> p]
        m1 == IF effect_handler = "melee_effect_handler_eat_gold" THEN h.m ELSE s.m
        obvious == IF hits THEN h.context.obvious ELSE FALSE
        blinked == IF hits THEN h.context.blinked ELSE s.blinked
        damage == IF hits THEN h.context.damage ELSE 0
        last == [effect |-> blow.effect, method |-> blow.method,
                 landed |-> hits /\ ~repelled,
                 bell |-> hits /\ ~repelled /\ effect_handler = "NULL",
                 saved |-> ~p.paralyzed /\ r.save < p.dex_safe + p.lev,
                 roll |-> r.hit, hit |-> hits, visible |-> visible,
                 obvious |-> ~repelled /\ obvious,
                 damage |-> IF repelled THEN 0 ELSE damage]
        do_break == IF hits THEN SavedDoBreak(FALSE, h.context) ELSE FALSE
        cuts == monster_blow_method_cut(blow.method)
        stuns == monster_blow_method_stun(blow.method)
        do_cut == cuts /\ ~(stuns /\ r.coin < 50)
        do_stun == stuns /\ ~(cuts /\ r.coin >= 50)
        tmp == monster_critical(blow.d_dice, blow.d_side, damage, r.crit)
        p1 == IF do_cut /\ CutAmount(tmp, r.lo) # 0
              THEN player_inc_cut(h.p, CutAmount(tmp, r.lo)) ELSE h.p
        p2 == IF do_stun /\ StunAmount(tmp, r.lo) # 0
              THEN player_inc_stun(p1, StunAmount(tmp, r.lo)) ELSE p1
        counted == CountsBlow(visible, obvious, damage, lore1.blows[s.ap_cnt + 1])
        lore2 == IF counted
                 THEN [lore1 EXCEPT !.blows[s.ap_cnt + 1] = SatInc(@, MAX_UCHAR)]
                 ELSE lore1
        pushed == hits /\ (h.p.px # p.px \/ h.p.py # p.py)
        next == [s EXCEPT !.ap_cnt = @ + 1, !.log = Append(@, s.ap_cnt),
                          !.last = last]
    IN  IF repelled THEN [next EXCEPT !.lore = lore1]
        ELSE [next EXCEPT
                 !.p = IF hits THEN p2 ELSE p,
                 !.m = IF hits THEN m1 ELSE s.m,
                 !.lore = lore2,
                 !.blinked = blinked,
                 !.stop = do_break,
                 !.displaced = IF pushed /\ @ = -1 THEN s.ap_cnt ELSE @]

\* the test made before each blow: the loop bound, the break of the last
\* blow, "no more attacks" and "leaving" (melee2.c 2307, 2328, 2331, 2501)
BlowLoopRuns(s) ==
    /\ ~s.stop
    /\ s.ap_cnt < MONSTER_BLOW_MAX
    /\ s.race.blow[s.ap_cnt + 1].method # "NONE"
    /\ ~s.p.leaving

\* the purses tried: the player's gold, adj_dex_safe of the player's
\* dexterity, and whether the player is paralyzed
PurseConds ==
    {[au |-> 0, dex_safe |-> 10, paralyzed |-> FALSE],
     [au |-> 1, dex_safe |-> 10, paralyzed |-> FALSE],
     [au |-> 15, dex_safe |-> 10, paralyzed |-> FALSE],
     [au |-> 60000, dex_safe |-> 100, paralyzed |-> TRUE],
     [au |-> 1000000, dex_safe |-> 10, paralyzed |-> FALSE]}

\* the combinations tried of the player's armour, hit points, level and
\* protection from evil, the race's flags and level, the monster's
\* visibility and lore counters, and the player's purse
MeleeConds ==
    {[ac |-> 0,   chp |-> 1000, lev |-> 30, protevil |-> 0, flags |-> {},
      level |-> 10, ml |-> TRUE,  seen |-> 0, purse |-> u] : u \in PurseConds}
    \cup
    {[ac |-> 100, chp |-> 25,   lev |-> 30, protevil |-> 5, flags |-> {"EVIL"},
      level |-> 10, ml |-> TRUE,  seen |-> 255,
      purse |-> [au |-> 15, dex_safe |-> 10, paralyzed |-> FALSE]],
     [ac |-> 0,   chp |-> 25,   lev |-> 5,  protevil |-> 5, flags |-> {"EVIL", "HAS_LIGHT"},
      level |-> 0,  ml |-> FALSE, seen |-> 11,
      purse |-> [au |-> 15, dex_safe |-> 10, paralyzed |-> FALSE]],
     [ac |-> 0,   chp |-> 25,   lev |-> 30, protevil |-> 0, flags |-> {"NEVER_BLOW"},
      level |-> 10, ml |-> FALSE, seen |-> 0,
      purse |-> [au |-> 15, dex_safe |-> 10, paralyzed |-> FALSE]],
     [ac |-> 0,   chp |-> 2,    lev |-> 30, protevil |-> 0, flags |-> {},
      level |-> 10, ml |-> TRUE,  seen |-> 254,
      purse |-> [au |-> 15, dex_safe |-> 10, paralyzed |-> FALSE]]}

\* what is remembered of the blow made last when none was made
NoLast ==
    [effect |-> "NONE", method |-> "NONE", landed |-> FALSE, bell |-> FALSE,
     saved |-> FALSE, roll |-> FALSE, hit |-> FALSE, visible |-> FALSE,
     obvious |-> FALSE, damage |-> 0]

MeleeInit ==
    /\ crit = CritIdle
    /\ spell = SpellIdle
    /\ world = WorldIdle
    /\ \E blows \in BlowLists, cnd \in MeleeConds :
          melee = [phase |-> "ready",
                   race |-> [flags |-> cnd.flags, level |-> cnd.level, blow |-> blows],
                   m |-> [ml |-> cnd.ml, teleported |-> FALSE, teleports |-> 0,
                          held |-> <<>>],
                   p |-> [py |-> 2, px |-> 2, chp |-> cnd.chp, ac |-> cnd.ac,
                          lev |-> cnd.lev, protevil |-> cnd.protevil,
                          cut |-> 0, stun |-> 0, leaving |-> FALSE, is_dead |-> FALSE,
                          au |-> cnd.purse.au, dex_safe |-> cnd.purse.dex_safe,
                          paralyzed |-> cnd.purse.paralyzed],
                   lore |-> [blows |-> [i \in 1..MONSTER_BLOW_MAX |-> cnd.seen],
                             flags |-> {}, deaths |-> 0],
                   ap_cnt |-> 0, blinked |-> FALSE, stop |-> FALSE,
                   log |-> <<>>, displaced |-> -1, ret |-> FALSE, last |-> NoLast]

\* make_attack_normal up to the blow loop: "Not allowed to attack"
MeleeStart ==
    /\ melee.phase = "ready"
    /\ melee' = IF "NEVER_BLOW" \in melee.race.flags
                THEN [melee EXCEPT !.phase = "done", !.ret = FALSE]
                ELSE [melee EXCEPT !.phase = "blows"]
    /\ UNCHANGED <<crit, spell, world>>

\* one blow of the race's blow list
MeleeBlow ==
    /\ melee.phase = "blows"
    /\ BlowLoopRuns(melee)
    /\ \E r \in MeleeRolls : melee' = BlowIteration(melee, r)
    /\ UNCHANGED <<crit, spell, world>>

\* make_attack_normal after the blow loop: blink away, count the death,
\* "Assume we attacked" (melee2.c 2505-2521)
AfterBlows(s) ==
    [s EXCEPT
        !.phase = "done",
        !.ret = TRUE,
        !.m.teleported = s.blinked,
        !.m.teleports = IF s.blinked THEN @ + 1 ELSE @,
        !.lore.deaths = IF s.p.is_dead THEN SatInc(@, MAX_SHORT) ELSE @]

MeleeFinish ==
    /\ melee.phase = "blows"
    /\ ~BlowLoopRuns(melee)
    /\ melee' = AfterBlows(melee)
    /\ UNCHANGED <<crit, spell, world>>

\* the blow loop run to its end, blow k under the rolls rs[k]
RECURSIVE BlowLoop(_, _)
BlowLoop(s, rs) ==
    IF BlowLoopRuns(s) /\ rs # <<>>
    THEN BlowLoop(BlowIteration(s, Head(rs)), Tail(rs))
    ELSE s

\* bool make_attack_normal(struct monster *m_ptr, struct player *p) as one
\* call, under the rolls rs of its blows
make_attack_normal(s, rs) ==
    IF "NEVER_BLOW" \in s.race.flags
    THEN [s EXCEPT !.phase = "done", !.ret = FALSE]
    ELSE AfterBlows(BlowLoop([s EXCEPT !.phase = "blows"], rs))

MeleeNext == MeleeStart \/ MeleeBlow \/ MeleeFinish

SpecMelee == MeleeInit /\ [][MeleeNext]_vars

\* C10: once a SHATTER blow's earthquake has changed the player's position,
\* no later blow of the race's blow list is attempted in that attack
C10_NoBlowAfterDisplacement ==
    melee.phase # "idle" /\ melee.displaced >= 0 =>
        \A i \in 1..Len(melee.log) : melee.log[i] <= melee.displaced

\* a SHATTER blow pushed the player away and the attack went on to the next
\* blow of the list
C10_Witness ==
    melee.phase = "done" /\ melee.displaced >= 0
        /\ Len(melee.log) > melee.displaced + 1

\* the gold in the objects objs
RECURSIVE SumPval(_)
SumPval(objs) == IF objs = <<>> THEN 0 ELSE Head(objs).pval + SumPval(Tail(objs))

\* the step from the unprimed to the primed state is a blow of the list
BlowStep == melee.phase = "blows" /\ melee'.phase = "blows"

\* C11: when an EAT_GOLD blow lands on a player who holds gold and the
\* saving throw fails, the player's gold drops by some g with 1 <= g <= the
\* gold held before, the monster holds, after what it held, new gold objects
\* stamped ORIGIN_STOLEN that add up to g, and blinked is set; blinked stays
\* set to the end of the attack, after which the attacker has been
\* teleported away exactly once
C11_GoldStolenThenBlink ==
    [][/\ BlowStep /\ melee'.last.effect = "EAT_GOLD" /\ melee'.last.landed
             /\ ~melee'.last.saved /\ melee.p.au > 0 =>
          LET g == melee.p.au - melee'.p.au
              n == Len(melee.m.held)
              new == SubSeq(melee'.m.held, n + 1, Len(melee'.m.held))
          IN  /\ g >= 1
              /\ g <= melee.p.au
              /\ melee'.p.au >= 0
              /\ SubSeq(melee'.m.held, 1, n) = melee.m.held
              /\ new # <<>>
              /\ \A k \in 1..Len(new) :
                    new[k].tval = "TV_GOLD" /\ new[k].origin = "ORIGIN_STOLEN"
                       /\ new[k].pval >= 1
              /\ SumPval(new) = g
              /\ melee'.blinked
       /\ BlowStep /\ melee.blinked => melee'.blinked
       /\ melee.phase = "blows" /\ melee'.phase = "done" /\ melee.blinked =>
             melee.m.teleports = 0 /\ melee'.m.teleports = 1]_vars

\* an attack is over in which more gold was taken than one object holds: the
\* monster carries it in two objects and has been teleported away once
C11_Witness ==
    /\ melee.phase = "done"
    /\ melee.p.au < 1000000
    /\ Len(melee.m.held) = 2
    /\ SumPval(melee.m.held) > MAX_PVAL
    /\ melee.m.teleports = 1

\* C16: a blow that lands and whose effect has no handler rings the bell and
\* leaves the player as he was (hit points, CUT, STUN, gold, position), leaves
\* what the monster carries as it was, and does not end the blow loop
C16_MissingHandlerIsNoOp ==
    [][BlowStep /\ melee'.last.bell =>
          /\ melee'.p = melee.p
          /\ melee'.m.held = melee.m.held
          /\ ~melee'.stop]_vars

\* a HIT blow whose effect has no handler rang the bell and cut the player
C16_Witness ==
    /\ melee.last.bell
    /\ melee.last.method = "HIT"
    /\ Len(melee.log) = 1
    /\ melee.p.cut > 0
    /\ melee.p.chp = 1000

(***************************************************************************)
(* process_monsters and process_monster (melee2.c 2546-3212), with         *)
(* get_moves and its helpers (melee2.c 399-1249)                           *)
(***************************************************************************)

\* bounds: the calls of process_monsters in a behaviour, and the slots of
\* the monster array
MaxCalls == 2
MaxMon == 3

\* the size of the cave of the model; its outer ring is permanent wall
Height == 5
Width == 5
Cells == Rect(0, Height - 1, 0, Width - 1)

\* constants of the headers
MAX_SIGHT == 20
MAX_REPRO == 100
MON_MULT_ADJ == 8
BREAK_GLYPH == 550
MONSTER_FLOW_DEPTH == 32

\* the keypad direction tables ddx[], ddy[], ddd[], ddx_ddd[], ddy_ddd[]
ddx(d) == <<0, -1, 0, 1, -1, 0, 1, -1, 0, 1>>[d + 1]
ddy(d) == <<0, 1, 1, 1, 0, 0, 0, -1, -1, -1>>[d + 1]
ddd(k) == <<2, 8, 6, 4, 3, 1, 9, 7>>[k + 1]
ddx_ddd(k) == <<0, 0, 1, -1, 1, -1, 1, -1>>[k + 1]
ddy_ddd(k) == <<1, -1, 0, 0, 1, 1, -1, -1>>[k + 1]

\* the one element of a set of one element; {F(x) : x \in {e}} is F of the
\* value of e, computed once
The(S) == CHOOSE x \in S : TRUE

\* the terrain of a cell: FLOOR, GLYPH (floor with a glyph of warding), OPEN
\* and BROKEN doors, RUBBLE, GRANITE and PERM walls, SECRET doors, and closed
\* doors DOOR0 (unlocked), DOOR1, DOOR2 (locked, with that lock power)
square_ispassable(w, c) == w.feat[c] \in {"FLOOR", "GLYPH", "OPEN", "BROKEN"}
square_iswall(w, c) == w.feat[c] \in {"GRANITE", "PERM"}
square_isperm(w, c) == w.feat[c] = "PERM"
square_iscloseddoor(w, c) == w.feat[c] \in {"DOOR0", "DOOR1", "DOOR2"}
square_issecretdoor(w, c) == w.feat[c] = "SECRET"
square_islockeddoor(w, c) == w.feat[c] \in {"DOOR1", "DOOR2"}
square_door_power(w, c) == IF w.feat[c] = "DOOR2" THEN 2
                           ELSE IF w.feat[c] = "DOOR1" THEN 1 ELSE 0
square_iswarded(w, c) == w.feat[c] = "GLYPH"
square_isempty(w, c) == square_ispassable(w, c) /\ w.m_idx[c] = 0
square_in_bounds_fully(w, c) ==
    c[1] > 0 /\ c[1] < w.height - 1 /\ c[2] > 0 /\ c[2] < w.width - 1
player_has_los_bold(w, c) == c \in w.view

\* square_set_feat(c, y, x, feat)
square_set_feat(w, c, f) == [w EXCEPT !.feat[c] = f]
\* cave->feat[ny][nx] - 1 for a locked door: the door with one lock power less
\* mutant: the lock is left as it is
LowerDoor_stays(f) == f

\* cave->feat[ny][nx] - 1 for a locked door (melee2.c 2856)
LowerDoor(f) == IF f = "DOOR2" THEN "DOOR1" ELSE "DOOR0"
square_destroy_wall(w, c) == square_set_feat(w, c, "FLOOR")
square_smash_door(w, c) == square_set_feat(w, c, "BROKEN")
square_open_door(w, c) == square_set_feat(w, c, "OPEN")
square_remove_ward(w, c) == square_set_feat(w, c, "FLOOR")

\* the timed effects of a monster, all off
NoTimers == [SLEEP |-> 0, FAST |-> 0, SLOW |-> 0, STUN |-> 0, CONF |-> 0, FEAR |-> 0]
TimerNames == {"SLEEP", "FAST", "SLOW", "STUN", "CONF", "FEAR"}

\* a slot of the monster array that holds no monster (race == NULL)
DeadMonster ==
    [race |-> "NULL", fy |-> 0, fx |-> 0, hp |-> 0, maxhp |-> 0, energy |-> 0,
     cdis |-> 0, m_timed |-> NoTimers, ml |-> FALSE, unaware |-> FALSE,
     nice |-> FALSE, known_pflags |-> {}, smart |-> {}]

Live(w, i) == w.mon[i].race # "NULL"
Pos(m) == <<m.fy, m.fx>>
PlayerPos(w) == <<w.p.py, w.p.px>>

\* rf_on(l_ptr->flags, flag) for each flag of fl, made when the monster is seen
Learn(w, i, fl) ==
    IF w.mon[i].ml
    THEN [w EXCEPT !.lore[w.mon[i].race].flags = @ \cup fl]
    ELSE w

\* mon_dec_timed(m_ptr, idx, d, ...): the timer less d, not below zero
mon_dec_timed(w, i, t, d) ==
    [w EXCEPT !.mon[i].m_timed[t] = IF @ - d < 0 THEN 0 ELSE @ - d]

\* mon_clear_timed(m_ptr, idx, ...)
mon_clear_timed(w, i, t) == [w EXCEPT !.mon[i].m_timed[t] = 0]

\* monster_swap(y1, x1, y2, x2): what stands on the two cells changes place;
\* a monster's (fy,fx) and cdis and the player's (py,px) follow
monster_swap(w, c1, c2) ==
    LET m1 == w.m_idx[c1]
        m2 == w.m_idx[c2]
        p1 == IF m1 < 0 THEN [w.p EXCEPT !.py = c2[1], !.px = c2[2]]
              ELSE IF m2 < 0 THEN [w.p EXCEPT !.py = c1[1], !.px = c1[2]]
              ELSE w.p
        pp == <<p1.py, p1.px>>
        Put(mon, m, c) ==
            IF m > 0
            THEN [mon EXCEPT ![m].fy = c[1], ![m].fx = c[2], ![m].cdis = distance(c, pp)]
            ELSE mon
    IN  [w EXCEPT !.m_idx = [@ EXCEPT ![c1] = m2, ![c2] = m1],
                  !.mon = Put(Put(@, m1, c2), m2, c1),
                  !.p = p1]

\* delete_monster(y, x): the monster on the cell is wiped and leaves the cell
delete_monster(w, c) ==
    LET m == w.m_idx[c]
    IN  IF m > 0
        THEN [w EXCEPT !.m_idx[c] = 0,
                       !.mon[m] = DeadMonster,
                       !.num_repro = IF "MULTIPLY" \in w.race[w.mon[m].race].flags
                                     THEN @ - 1 ELSE @,
                       !.hist.events = Append(@, <<"delete", m>>)]
        ELSE w

\* the empty cells next to c
EmptyNear(w, c) ==
    {n \in Rect(c[1] - 1, c[1] + 1, c[2] - 1, c[2] + 1) : n # c /\ square_isempty(w, n)}

\* multiply_monster(m_ptr): a copy of the monster is placed on the empty
\* neighbouring cell at, in the first unused slot of the array; FALSE when
\* there is no such cell or no slot
multiply_monster(w, i, at) ==
    IF at \notin EmptyNear(w, Pos(w.mon[i])) \/ w.mon_max > MaxMon
    THEN [w |-> w, ok |-> FALSE]
    ELSE LET m == w.mon[i]
             child == [m EXCEPT !.fy = at[1], !.fx = at[2],
                                !.cdis = distance(at, PlayerPos(w)),
                                !.hp = m.maxhp, !.energy = 0,
                                !.m_timed = NoTimers]
         IN  [w |-> [w EXCEPT !.mon[w.mon_max] = child,
                              !.m_idx[at] = w.mon_max,
                              !.mon_max = @ + 1,
                              !.num_repro = @ + 1],
              ok |-> TRUE]

\* the cave as the line-of-fire services see it from monster i
WorldLay(w, i) ==
    [h |-> w.height, w |-> w.width, mon |-> Pos(w.mon[i]), player |-> PlayerPos(w),
     floor |-> {c \in DOMAIN w.feat : square_ispassable(w, c)},
     occ |-> {c \in DOMAIN w.feat : w.m_idx[c] > 0 /\ c # Pos(w.mon[i])},
     ward |-> {c \in DOMAIN w.feat : square_iswarded(w, c)}]

\* OPT(birth_small_range) ? race->aaf / 2 : race->aaf
EffectiveAaf(w, race) == IF w.small_range THEN race.aaf \div 2 ELSE race.aaf

\* static int mon_will_run(struct monster *m_ptr)
mon_will_run(w, i) ==
    LET m == w.mon[i]
        p_lev == w.p.lev
        m_lev == w.race[m.race].level + ((i \div 8) % 2) * 8 + 25
        p_val == p_lev * w.p.mhp + w.p.chp * 4
        m_val == m_lev * m.maxhp + m.hp * 4
    IN  IF m.cdis > MAX_SIGHT + 5 THEN FALSE
        ELSE IF m.m_timed.FEAR # 0 THEN TRUE
        ELSE IF m.cdis <= 5 THEN FALSE
        ELSE IF m_lev > p_lev + 4 THEN FALSE
        ELSE IF m_lev + 4 <= p_lev THEN TRUE
        ELSE p_val * m.maxhp > m_val * w.p.mhp

\* static bool near_permwall(m_ptr, c); flowroll is randint0(99)
near_permwall(w, i, flowroll) ==
    LET my == w.mon[i].fy
        mx == w.mon[i].fx
    IN  IF projectable(WorldLay(w, i), <<my, mx>>, PlayerPos(w)) THEN FALSE
        ELSE IF flowroll < 5 THEN TRUE
        ELSE \E c \in Rect(my - 2, my + 2, mx - 2, mx + 2) :
                square_in_bounds_fully(w, c) /\ square_isperm(w, c)

\* mutant: a neighbour replaces the one held only when it costs less
RECURSIVE FlowScan_keepsFirst(_, _, _, _)
FlowScan_keepsFirst(w, c1, k, acc) ==
    IF k < 0 THEN acc
    ELSE LET c == <<c1[1] + ddy_ddd(k), c1[2] + ddx_ddd(k)>>
             skip == w.when[c] = 0 \/ w.when[c] < acc.when \/ w.cost[c] >= acc.cost
         IN  FlowScan_keepsFirst(w, c1, k - 1,
                                 IF skip THEN acc
                                 ELSE [when |-> w.when[c], cost |-> w.cost[c],
                                       y |-> w.p.py + 16 * ddy_ddd(k),
                                       x |-> w.p.px + 16 * ddx_ddd(k)])

\* the scan of the eight neighbours of c1 in get_moves_aux, from ddd index k
\* down to 0; acc holds when, cost and the twiddled target
RECURSIVE FlowScan(_, _, _, _)
FlowScan(w, c1, k, acc) ==
    IF k < 0 THEN acc
    ELSE LET c == <<c1[1] + ddy_ddd(k), c1[2] + ddx_ddd(k)>>
             skip == w.when[c] = 0 \/ w.when[c] < acc.when \/ w.cost[c] > acc.cost
         IN  The({FlowScan(w, c1, k - 1, a) :
                     a \in {IF skip THEN acc
                            ELSE [when |-> w.when[c], cost |-> w.cost[c],
                                  y |-> w.p.py + 16 * ddy_ddd(k),
                                  x |-> w.p.px + 16 * ddx_ddd(k)]}})

\* static bool get_moves_aux(c, m_ptr, &y2, &x2): the target (y, x) starts
\* as the player's cell
get_moves_aux(w, i, flowroll) ==
    LET m == w.mon[i]
        race == w.race[m.race]
        c1 == Pos(m)
        pp == PlayerPos(w)
        no == [ok |-> FALSE, y |-> pp[1], x |-> pp[2]]
        start == [when |-> 0, cost |-> 999, y |-> pp[1], x |-> pp[2]]
    IN  IF race.flags \cap {"PASS_WALL", "KILL_WALL"} # {} /\ ~near_permwall(w, i, flowroll)
        THEN no
        ELSE IF w.when[c1] < w.when[pp] /\ w.when[c1] = 0 THEN no
        ELSE IF w.cost[c1] > MONSTER_FLOW_DEPTH THEN no
        ELSE IF w.cost[c1] > EffectiveAaf(w, race) THEN no
        ELSE IF player_has_los_bold(w, c1) THEN no
        ELSE The({IF scan.when = 0 THEN no
                  ELSE [ok |-> TRUE, y |-> scan.y, x |-> scan.x] :
                     scan \in {FlowScan(w, c1, 7, start)}})

\* the scan of the eight neighbours in get_fear_moves_aux; dest is the
\* desired destination, acc holds when, score and the chosen cell
RECURSIVE FearScan(_, _, _, _, _)
FearScan(w, f, dest, k, acc) ==
    IF k < 0 THEN acc
    ELSE LET c == <<f[1] + ddy_ddd(k), f[2] + ddx_ddd(k)>>
             dis == distance(c, dest)
             s0 == 5000 \div (dis + 3) - 500 \div (w.cost[c] + 1)
             s == IF s0 < 0 THEN 0 ELSE s0
             skip == w.when[c] = 0 \/ w.when[c] < acc.when \/ s < acc.score
         IN  The({FearScan(w, f, dest, k - 1, a) :
                     a \in {IF skip THEN acc
                            ELSE [when |-> w.when[c], score |-> s,
                                  gy |-> c[1], gx |-> c[2]]}})

\* static bool get_fear_moves_aux(c, m_ptr, &y, &x): (y, x) comes back
\* changed only on success
get_fear_moves_aux(w, i, y, x) ==
    LET m == w.mon[i]
        race == w.race[m.race]
        f == Pos(m)
        pp == PlayerPos(w)
        no == [ok |-> FALSE, y |-> y, x |-> x]
        start == [when |-> 0, score |-> -1, gy |-> 0, gx |-> 0]
    IN  IF w.when[f] < w.when[pp] THEN no
        ELSE IF w.cost[f] > MONSTER_FLOW_DEPTH THEN no
        ELSE IF w.cost[f] > EffectiveAaf(w, race) THEN no
        ELSE The({IF scan.when = 0 THEN no
                  ELSE [ok |-> TRUE, y |-> f[1] - scan.gy, x |-> f[2] - scan.gx] :
                     scan \in {FearScan(w, f, <<f[1] - y, f[2] - x>>, 7, start)}})

\* dist_offsets_y[d], dist_offsets_x[d] as pairs (dy, dx), without the closing
\* (0,0), for the distances 1 to 9
dist_offsets(d) ==
    IF d = 1 THEN
        <<(<<-1, -1>>), (<<-1, 0>>), (<<-1, 1>>), (<<0, -1>>), (<<0, 1>>),
          (<<1, -1>>), (<<1, 0>>), (<<1, 1>>)>>
    ELSE IF d = 2 THEN
        <<(<<-1, -2>>), (<<-1, 2>>), (<<-2, -1>>), (<<-2, 0>>), (<<-2, 1>>),
          (<<0, -2>>), (<<0, 2>>), (<<1, -2>>), (<<1, 2>>), (<<2, -1>>),
          (<<2, 0>>), (<<2, 1>>)>>
    ELSE IF d = 3 THEN
        <<(<<-1, -3>>), (<<-1, 3>>), (<<-2, -2>>), (<<-2, 2>>), (<<-3, -1>>),
          (<<-3, 0>>), (<<-3, 1>>), (<<0, -3>>), (<<0, 3>>), (<<1, -3>>),
          (<<1, 3>>), (<<2, -2>>), (<<2, 2>>), (<<3, -1>>), (<<3, 0>>),
          (<<3, 1>>)>>
    ELSE IF d = 4 THEN
        <<(<<-1, -4>>), (<<-1, 4>>), (<<-2, -3>>), (<<-2, 3>>), (<<-3, -2>>),
          (<<-3, -3>>), (<<-3, 2>>), (<<-3, 3>>), (<<-4, -1>>), (<<-4, 0>>),
          (<<-4, 1>>), (<<0, -4>>), (<<0, 4>>), (<<1, -4>>), (<<1, 4>>),
          (<<2, -3>>), (<<2, 3>>), (<<3, -2>>), (<<3, -3>>), (<<3, 2>>),
          (<<3, 3>>), (<<4, -1>>), (<<4, 0>>), (<<4, 1>>)>>
    ELSE IF d = 5 THEN
        <<(<<-1, -5>>), (<<-1, 5>>), (<<-2, -4>>), (<<-2, 4>>), (<<-3, -4>>),
          (<<-3, 4>>), (<<-4, -2>>), (<<-4, -3>>), (<<-4, 2>>), (<<-4, 3>>),
          (<<-5, -1>>), (<<-5, 0>>), (<<-5, 1>>), (<<0, -5>>), (<<0, 5>>),
          (<<1, -5>>), (<<1, 5>>), (<<2, -4>>), (<<2, 4>>), (<<3, -4>>),
          (<<3, 4>>), (<<4, -2>>), (<<4, -3>>), (<<4, 2>>), (<<4, 3>>),
          (<<5, -1>>), (<<5, 0>>), (<<5, 1>>)>>
    ELSE IF d = 6 THEN
        <<(<<-1, -6>>), (<<-1, 6>>), (<<-2, -5>>), (<<-2, 5>>), (<<-3, -5>>),
          (<<-3, 5>>), (<<-4, -4>>), (<<-4, 4>>), (<<-5, -2>>), (<<-5, -3>>),
          (<<-5, 2>>), (<<-5, 3>>), (<<-6, -1>>), (<<-6, 0>>), (<<-6, 1>>),
          (<<0, -6>>), (<<0, 6>>), (<<1, -6>>), (<<1, 6>>), (<<2, -5>>),
          (<<2, 5>>), (<<3, -5>>), (<<3, 5>>), (<<4, -4>>), (<<4, 4>>),
          (<<5, -2>>), (<<5, -3>>), (<<5, 2>>), (<<5, 3>>), (<<6, -1>>),
          (<<6, 0>>), (<<6, 1>>)>>
    ELSE IF d = 7 THEN
        <<(<<-1, -7>>), (<<-1, 7>>), (<<-2, -6>>), (<<-2, 6>>), (<<-3, -6>>),
          (<<-3, 6>>), (<<-4, -5>>), (<<-4, 5>>), (<<-5, -4>>), (<<-5, -5>>),
          (<<-5, 4>>), (<<-5, 5>>), (<<-6, -2>>), (<<-6, -3>>), (<<-6, 2>>),
          (<<-6, 3>>), (<<-7, -1>>), (<<-7, 0>>), (<<-7, 1>>), (<<0, -7>>),
          (<<0, 7>>), (<<1, -7>>), (<<1, 7>>), (<<2, -6>>), (<<2, 6>>),
          (<<3, -6>>), (<<3, 6>>), (<<4, -5>>), (<<4, 5>>), (<<5, -4>>),
          (<<5, -5>>), (<<5, 4>>), (<<5, 5>>), (<<6, -2>>), (<<6, -3>>),
          (<<6, 2>>), (<<6, 3>>), (<<7, -1>>), (<<7, 0>>), (<<7, 1>>)>>
    ELSE IF d = 8 THEN
        <<(<<-1, -8>>), (<<-1, 8>>), (<<-2, -7>>), (<<-2, 7>>), (<<-3, -7>>),
          (<<-3, 7>>), (<<-4, -6>>), (<<-4, 6>>), (<<-5, -6>>), (<<-5, 6>>),
          (<<-6, -4>>), (<<-6, -5>>), (<<-6, 4>>), (<<-6, 5>>), (<<-7, -2>>),
          (<<-7, -3>>), (<<-7, 2>>), (<<-7, 3>>), (<<-8, -1>>), (<<-8, 0>>),
          (<<-8, 1>>), (<<0, -8>>), (<<0, 8>>), (<<1, -8>>), (<<1, 8>>),
          (<<2, -7>>), (<<2, 7>>), (<<3, -7>>), (<<3, 7>>), (<<4, -6>>),
          (<<4, 6>>), (<<5, -6>>), (<<5, 6>>), (<<6, -4>>), (<<6, -5>>),
          (<<6, 4>>), (<<6, 5>>), (<<7, -2>>), (<<7, -3>>), (<<7, 2>>),
          (<<7, 3>>), (<<8, -1>>), (<<8, 0>>), (<<8, 1>>)>>
    ELSE IF d = 9 THEN
        <<(<<-1, -9>>), (<<-1, 9>>), (<<-2, -8>>), (<<-2, 8>>), (<<-3, -8>>),
          (<<-3, 8>>), (<<-4, -7>>), (<<-4, 7>>), (<<-5, -7>>), (<<-5, 7>>),
          (<<-6, -6>>), (<<-6, 6>>), (<<-7, -4>>), (<<-7, -5>>), (<<-7, 4>>),
          (<<-7, 5>>), (<<-8, -2>>), (<<-8, -3>>), (<<-8, 2>>), (<<-8, 3>>),
          (<<-9, -1>>), (<<-9, 0>>), (<<-9, 1>>), (<<0, -9>>), (<<0, 9>>),
          (<<1, -9>>), (<<1, 9>>), (<<2, -8>>), (<<2, 8>>), (<<3, -8>>),
          (<<3, 8>>), (<<4, -7>>), (<<4, 7>>), (<<5, -7>>), (<<5, 7>>),
          (<<6, -6>>), (<<6, 6>>), (<<7, -4>>), (<<7, -5>>), (<<7, 4>>),
          (<<7, 5>>), (<<8, -2>>), (<<8, -3>>), (<<8, 2>>), (<<8, 3>>),
          (<<9, -1>>), (<<9, 0>>), (<<9, 1>>)>>
    ELSE <<>>

\* the inner loop of find_safety over the offsets of distance d from the
\* k-th on; g holds gy, gx, gdis
RECURSIVE SafetyRing(_, _, _, _, _)
SafetyRing(w, f, d, k, g) ==
    IF k > Len(dist_offsets(d)) THEN g
    ELSE LET c == <<f[1] + dist_offsets(d)[k][1], f[2] + dist_offsets(d)[k][2]>>
             pp == PlayerPos(w)
             skip == \/ ~square_in_bounds_fully(w, c)
                     \/ ~square_ispassable(w, c)
                     \/ w.when[c] < w.when[pp]
                     \/ w.cost[c] > w.cost[f] + 2 * d
             dis == distance(c, pp)
             better == ~skip /\ ~player_has_los_bold(w, c) /\ dis > g.gdis
         IN  SafetyRing(w, f, d, k + 1,
                        IF better THEN [gy |-> c[1], gx |-> c[2], gdis |-> dis] ELSE g)

\* the outer loop of find_safety from distance d on
RECURSIVE SafetyFrom(_, _, _, _, _)
SafetyFrom(w, f, d, y, x) ==
    IF d >= 10 THEN [ok |-> FALSE, y |-> y, x |-> x]
    ELSE The({IF g.gdis > 0
              THEN [ok |-> TRUE, y |-> f[1] - g.gy, x |-> f[2] - g.gx]
              ELSE SafetyFrom(w, f, d + 1, y, x) :
                 g \in {SafetyRing(w, f, d, 1, [gy |-> 0, gx |-> 0, gdis |-> 0])}})

\* mutant: the search starts at the ring of distance 2
find_safety_skipsAdjacent(w, i, y, x) == SafetyFrom(w, Pos(w.mon[i]), 2, y, x)

\* static bool find_safety(c, m_ptr, &y, &x)
find_safety(w, i, y, x) == SafetyFrom(w, Pos(w.mon[i]), 1, y, x)

\* mutant: the list of the first case, whatever move_val
MoveChoices_alwaysNorthEast(move_val, y, x, ay, ax) == <<9, 8, 6, 7, 3>>

\* the switch on move_val at the end of get_moves
MoveChoices(move_val, y, x, ay, ax) ==
    CASE move_val = 0 ->
            IF ay > ax THEN <<9, 8, 6, 7, 3>> ELSE <<9, 6, 8, 3, 7>>
      [] move_val \in {1, 9} ->
            IF y < 0 THEN <<6, 3, 9, 2, 8>> ELSE <<6, 9, 3, 8, 2>>
      [] move_val \in {2, 6} ->
            IF x < 0 THEN <<8, 9, 7, 6, 4>> ELSE <<8, 7, 9, 4, 6>>
      [] move_val = 4 ->
            IF ay > ax THEN <<7, 8, 4, 9, 1>> ELSE <<7, 4, 8, 1, 9>>
      [] move_val \in {5, 13} ->
            IF y < 0 THEN <<4, 1, 7, 2, 8>> ELSE <<4, 7, 1, 8, 2>>
      [] move_val = 8 ->
            IF ay > ax THEN <<3, 2, 6, 1, 9>> ELSE <<3, 6, 2, 9, 1>>
      [] move_val \in {10, 14} ->
            IF x < 0 THEN <<2, 3, 1, 6, 4>> ELSE <<2, 1, 3, 4, 6>>
      [] OTHER ->
            IF ay > ax THEN <<1, 2, 4, 3, 7>> ELSE <<1, 4, 2, 7, 3>>

\* get_moves from "Check for no move" on (melee2.c 1057-1248), for the
\* pseudo-direction (y, x), which the result carries along
MovesToward(y, x) ==
    LET ax == Abs(x)
        ay == Abs(y)
        move_val == (IF y < 0 THEN 8 ELSE 0) + (IF x > 0 THEN 4 ELSE 0)
                    + (IF ay > 2 * ax THEN 2 ELSE IF ax > 2 * ay THEN 1 ELSE 0)
    IN  IF x = 0 /\ y = 0 THEN [ok |-> FALSE, mm |-> <<>>, y |-> y, x |-> x]
        ELSE [ok |-> TRUE, mm |-> MoveChoices(move_val, y, x, ay, ax),
              y |-> y, x |-> x]

\* "Apply fear" (melee2.c 1007-1025): the pseudo-direction of a monster
\* that runs, from the pseudo-direction (y, x) towards the player
FearMoves(w, i, y, x) ==
    The({IF ~safe.ok THEN <<-y, -x>>
         ELSE The({<<f.y, f.x>> : f \in {get_fear_moves_aux(w, i, safe.y, safe.x)}}) :
            safe \in {find_safety(w, i, y, x)}})

\* static bool get_moves(c, m_ptr, mm): whether the monster wants to move,
\* and its five directions.  No race of the model has GROUP_AI, so the pack
\* branches (melee2.c 978-1004, 1028-1054) are not taken.
get_moves(w, i, flowroll) ==
    The({The({MovesToward(d[1], d[2]) :
                 d \in {IF mon_will_run(w, i)
                        THEN FearMoves(w, i, w.mon[i].fy - aux.y, w.mon[i].fx - aux.x)
                        ELSE <<w.mon[i].fy - aux.y, w.mon[i].fx - aux.x>>}}) :
            aux \in {get_moves_aux(w, i, flowroll)}})

\* what make_attack_spell computes from the cave for monster i
WorldFacts(w, i) ==
    [cdis |-> w.mon[i].cdis,
     projectable |-> projectable(WorldLay(w, i), Pos(w.mon[i]), PlayerPos(w)),
     clean_shot |-> clean_shot(WorldLay(w, i), Pos(w.mon[i]), PlayerPos(w)),
     summon_possible |-> summon_possible(WorldLay(w, i), Pos(w.mon[i]))]

\* the arguments of make_attack_spell(m_ptr) for monster i
SpellOf(w, i) ==
    LET m == w.mon[i]
        l == w.lore[m.race]
    IN  [phase |-> "ready", lay |-> "cave", facts |-> WorldFacts(w, i),
         learn |-> w.learn, race |-> w.race[m.race],
         m |-> [hp |-> m.hp, maxhp |-> m.maxhp, fast |-> m.m_timed.FAST,
                fear |-> m.m_timed.FEAR, conf |-> m.m_timed.CONF, cdis |-> m.cdis,
                nice |-> m.nice, unaware |-> m.unaware, ml |-> m.ml,
                known_pflags |-> m.known_pflags, smart |-> m.smart],
         p |-> [leaving |-> w.p.leaving, blind |-> w.p.blind, is_dead |-> w.p.is_dead],
         lore |-> [cast_innate |-> l.cast_innate, cast_spell |-> l.cast_spell,
                   spell_flags |-> l.spell_flags, deaths |-> l.deaths],
         ret |-> FALSE, filtered |-> FALSE, f |-> {}, thrown |-> "NONE",
         failed |-> FALSE, delegated |-> "NONE", f2 |-> {}, same |-> FALSE,
         roll |-> -1, fast0 |-> m.m_timed.FAST]

\* the cave after make_attack_spell(m_ptr) came back as s; a player the
\* spell killed is leaving the level
AfterSpell(w, i, s) ==
    LET race == w.mon[i].race
    IN  [w EXCEPT
            !.mon[i].m_timed.FAST = s.m.fast,
            !.mon[i].unaware = s.m.unaware,
            !.mon[i].known_pflags = s.m.known_pflags,
            !.lore[race].cast_innate = s.lore.cast_innate,
            !.lore[race].cast_spell = s.lore.cast_spell,
            !.lore[race].spell_flags = s.lore.spell_flags,
            !.lore[race].deaths = s.lore.deaths,
            !.p.is_dead = s.p.is_dead,
            !.p.leaving = @ \/ s.p.is_dead,
            !.hist.cast = IF s.ret /\ ~s.failed /\ s.thrown # "NONE"
                          THEN Append(@, <<i, s.thrown>>) ELSE @,
            !.hist.last.spelled = s.ret]

\* the arguments of make_attack_normal(m_ptr, p_ptr) for monster i
MeleeOf(w, i) ==
    LET m == w.mon[i]
        l == w.lore[m.race]
    IN  [phase |-> "ready", race |-> w.race[m.race],
         m |-> [ml |-> m.ml, teleported |-> FALSE, teleports |-> 0, held |-> <<>>],
         p |-> [py |-> w.p.py, px |-> w.p.px, chp |-> w.p.chp, ac |-> w.p.ac,
                lev |-> w.p.lev, protevil |-> w.p.protevil, cut |-> w.p.cut,
                stun |-> w.p.stun, leaving |-> w.p.leaving, is_dead |-> w.p.is_dead,
                au |-> 0, dex_safe |-> 0, paralyzed |-> FALSE],
         lore |-> [blows |-> l.blows, flags |-> l.flags, deaths |-> l.deaths],
         ap_cnt |-> 0, blinked |-> FALSE, stop |-> FALSE,
         log |-> <<>>, displaced |-> -1, ret |-> FALSE, last |-> NoLast]

\* the cave after make_attack_normal(m_ptr, p_ptr) came back as s; the
\* blows of the races of this cave neither move the player nor blink
AfterMelee(w, i, s) ==
    LET race == w.mon[i].race
    IN  [w EXCEPT
            !.p.chp = s.p.chp, !.p.cut = s.p.cut, !.p.stun = s.p.stun,
            !.p.leaving = s.p.leaving, !.p.is_dead = s.p.is_dead,
            !.lore[race].blows = s.lore.blows,
            !.lore[race].flags = s.lore.flags,
            !.lore[race].deaths = s.lore.deaths,
            !.hist.last.kind = "attack",
            !.hist.last.attacks = @ + 1]

\* mutant: a monster that wakes up goes on with its turn
SleepPhase_actsOnWaking(w, i, notice) ==
    LET m == w.mon[i]
        d == IF m.cdis < 50 THEN 100 \div m.cdis ELSE 1
    IN  IF m.m_timed.SLEEP = 0 THEN [w |-> w, ret |-> FALSE]
        ELSE IF m.m_timed.SLEEP > d
             THEN [w |-> mon_dec_timed(w, i, "SLEEP", d), ret |-> TRUE]
        ELSE [w |-> mon_clear_timed(w, i, "SLEEP"), ret |-> FALSE]

\* "Handle sleep" and "If the monster just woke up, then it doesn't act"
\* (melee2.c 2566-2633): the cave afterwards, and whether the pass returns
SleepPhase(w, i, notice) ==
    LET m == w.mon[i]
        l == w.lore[m.race]
        seen == m.ml /\ ~m.unaware
        d == IF m.cdis < 50 THEN 100 \div m.cdis ELSE 1
        dozing == mon_dec_timed(w, i, "SLEEP", d)
        waking == mon_clear_timed(w, i, "SLEEP")
        w1 == IF w.p.aggravate THEN waking
              ELSE IF notice * notice * notice <= w.p.noise
                   THEN IF m.m_timed.SLEEP > d
                        THEN (IF seen /\ l.ignore < MAX_UCHAR
                              THEN [dozing EXCEPT !.lore[m.race].ignore = @ + 1]
                              ELSE dozing)
                        ELSE (IF seen /\ l.wake < MAX_UCHAR
                              THEN [waking EXCEPT !.lore[m.race].wake = @ + 1]
                              ELSE waking)
                   ELSE w
        woke_up == ~w.p.aggravate /\ w.mon[i].m_timed.SLEEP # 0
                   /\ w1.mon[i].m_timed.SLEEP = 0
    IN  IF m.m_timed.SLEEP = 0 THEN [w |-> w, ret |-> FALSE]
        ELSE IF w.p.aggravate THEN [w |-> w1, ret |-> TRUE]
        ELSE [w |-> w1, ret |-> w1.mon[i].m_timed.SLEEP # 0 \/ woke_up]

\* mutant: confusion is prolonged by the roll instead of shortened
ConfDecay_grows(w, i, d) ==
    IF w.mon[i].m_timed.CONF = 0 THEN w
    ELSE [w EXCEPT !.mon[i].m_timed.CONF = @ + d]

\* the decay of FAST and of SLOW (melee2.c 2635-2639)
SpeedDecay(w, i) ==
    LET w1 == IF w.mon[i].m_timed.FAST # 0 THEN mon_dec_timed(w, i, "FAST", 1) ELSE w
    IN  IF w1.mon[i].m_timed.SLOW # 0 THEN mon_dec_timed(w1, i, "SLOW", 1) ELSE w1

\* the recovery from STUN (melee2.c 2641-2657); save is randint0(5000); the
\* pass returns while the monster is still stunned
StunDecay(w, i, save) ==
    LET m == w.mon[i]
        level == w.race[m.race].level
        d == IF save <= level * level THEN m.m_timed.STUN ELSE 1
        w1 == IF m.m_timed.STUN > d THEN mon_dec_timed(w, i, "STUN", 1)
              ELSE mon_clear_timed(w, i, "STUN")
    IN  IF m.m_timed.STUN = 0 THEN [w |-> w, ret |-> FALSE]
        ELSE [w |-> w1, ret |-> w1.mon[i].m_timed.STUN # 0]

\* the decay of CONF (melee2.c 2659-2668); d is randint1(level / 10 + 1)
ConfDecay(w, i, d) ==
    IF w.mon[i].m_timed.CONF = 0 THEN w
    ELSE IF w.mon[i].m_timed.CONF > d THEN mon_dec_timed(w, i, "CONF", d)
    ELSE mon_clear_timed(w, i, "CONF")

\* the decay of FEAR (melee2.c 2670-2678); d is randint1(level / 10 + 1)
FearDecay(w, i, d) ==
    IF w.mon[i].m_timed.FEAR = 0 THEN w
    ELSE IF w.mon[i].m_timed.FEAR > d THEN mon_dec_timed(w, i, "FEAR", d)
    ELSE mon_clear_timed(w, i, "FEAR")

\* the monsters on the 3x3 block around c, the cell itself included
CountAdjacent(w, c) ==
    Cardinality({n \in Rect(c[1] - 1, c[1] + 1, c[2] - 1, c[2] + 1) : w.m_idx[n] > 0})

\* "Attempt to multiply" (melee2.c 2689-2714); breed is the one_in_ roll and
\* at the cell multiply_monster finds; the pass returns after a birth
ReproPhase(w, i, breed, at) ==
    LET m == w.mon[i]
        k == CountAdjacent(w, Pos(m))
        breeder == "MULTIPLY" \in w.race[m.race].flags
        w0 == [w EXCEPT !.hist.last.k = k]
        w1 == [Learn(w0, i, {"MULTIPLY"}) EXCEPT
                  !.hist.last.breed = IF breeder THEN "tried" ELSE "none"]
        born == multiply_monster(w1, i, at)
    IN  IF w.num_repro < MAX_REPRO
        THEN IF k < 4 /\ (k = 0 \/ breed)
             THEN IF breeder /\ born.ok
                  THEN [w |-> [born.w EXCEPT !.hist.last.breed = "born"], ret |-> TRUE]
                  ELSE [w |-> w1, ret |-> FALSE]
             ELSE [w |-> w0, ret |-> FALSE]
        ELSE [w |-> w, ret |-> FALSE]

\* "Confused" and "Random movement" (melee2.c 2723-2760); roll is
\* randint0(100)
StaggerPhase(w, i, roll) ==
    LET m == w.mon[i]
        flags == w.race[m.race].flags
    IN  IF m.m_timed.CONF # 0 THEN [w |-> w, stagger |-> TRUE]
        ELSE IF roll < 25
             THEN [w |-> Learn(w, i, {"RAND_25"}),
                   stagger |-> flags \cap {"RAND_25", "RAND_50"} # {}]
        ELSE IF roll < 50
             THEN [w |-> Learn(w, i, {"RAND_50"}), stagger |-> "RAND_50" \in flags]
        ELSE IF roll < 75
             THEN [w |-> w, stagger |-> {"RAND_25", "RAND_50"} \subseteq flags]
        ELSE [w |-> w, stagger |-> FALSE]

\* mutant: a monster of equal experience value counts as weaker
compare_monsters_notWeaker(w, i, j) ==
    LET mexp1 == w.race[w.mon[i].race].mexp
        mexp2 == w.race[w.mon[j].race].mexp
    IN  IF mexp1 < mexp2 THEN -1 ELSE 1

\* static int compare_monsters(m_ptr, n_ptr)
compare_monsters(w, i, j) ==
    LET mexp1 == w.race[w.mon[i].race].mexp
        mexp2 == w.race[w.mon[j].race].mexp
    IN  IF mexp1 < mexp2 THEN -1 ELSE IF mexp1 > mexp2 THEN 1 ELSE 0

is_mimicking(m) == m.unaware
become_aware(w, j) == [w EXCEPT !.mon[j].unaware = FALSE]

\* The step loop works on st = [w, do_turn, do_move, do_view]: the cave and
\* the three flags of process_monster.

\* "Floor is open?" to the end of the door handling (melee2.c 2781-2879);
\* r.bash is one_in_(2) and r.lock is randint0(hp / 10)
TerrainInWay(st, i, n, r) ==
    LET w == st.w
        flags == w.race[w.mon[i].race].flags
        w1 == Learn(w, i, {"PASS_WALL", "KILL_WALL"})
        w2 == [Learn(w1, i, {"OPEN_DOOR", "BASH_DOOR"}) EXCEPT
                  !.hist.last.doors = @ + 1, !.hist.last.cell = n]
        may_bash == "BASH_DOOR" \in flags /\ r.bash
        k == square_door_power(w, n)
        seen == player_has_los_bold(w, n)
    IN  IF square_ispassable(w, n) THEN [st EXCEPT !.do_move = TRUE]
        ELSE IF square_iswall(w, n) /\ square_isperm(w, n) THEN st
        ELSE IF "PASS_WALL" \in flags THEN [st EXCEPT !.w = w1, !.do_move = TRUE]
        ELSE IF "KILL_WALL" \in flags
             THEN [st EXCEPT !.w = [square_destroy_wall(w1, n) EXCEPT
                                       !.hist.last.razed = @ + 1,
                                       !.hist.last.cell = n],
                             !.do_move = TRUE,
                             !.do_view = @ \/ seen]
        ELSE IF square_iscloseddoor(w, n) \/ square_issecretdoor(w, n)
             THEN IF flags \cap {"OPEN_DOOR", "BASH_DOOR"} = {}
                  THEN [st EXCEPT !.w = [w2 EXCEPT !.hist.last.door = "shut"],
                                  !.do_turn = TRUE]
                  ELSE IF square_islockeddoor(w, n)
                       THEN [st EXCEPT
                                !.w = [(IF r.lock > k
                                        THEN square_set_feat(w2, n, LowerDoor(w.feat[n]))
                                        ELSE w2) EXCEPT !.hist.last.door = "locked",
                                                        !.hist.last.flip = may_bash],
                                !.do_turn = TRUE]
                  ELSE IF may_bash
                       THEN [st EXCEPT !.w = [square_smash_door(w2, n) EXCEPT
                                                 !.hist.last.door = "bash",
                                                 !.hist.last.flip = TRUE],
                                       !.do_turn = TRUE,
                                       !.do_move = TRUE, !.do_view = @ \/ seen]
                  ELSE [st EXCEPT !.w = [square_open_door(w2, n) EXCEPT
                                            !.hist.last.door = "open"],
                                  !.do_turn = TRUE,
                                  !.do_view = @ \/ seen]
        ELSE [st EXCEPT !.w = w1]

\* "Hack -- check for Glyph of Warding" (melee2.c 2882-2902); r.glyph is
\* randint1(BREAK_GLYPH)
GlyphInWay(st, i, n, r) ==
    LET w == st.w
        level == w.race[w.mon[i].race].level
    IN  IF st.do_move /\ square_iswarded(w, n)
        THEN IF r.glyph < level
             THEN [st EXCEPT !.w = square_remove_ward(w, n), !.do_move = TRUE]
             ELSE [st EXCEPT !.do_move = FALSE]
        ELSE st

\* mutant: a monster that never moves is let through
NeverMove_letsThrough(st, i) == st

\* mutant: the monster attacks and then steps onto the player's cell
PlayerInWay_stepsOn(st, i, n, r) ==
    IF st.do_move /\ st.w.m_idx[n] < 0
    THEN [st EXCEPT !.do_turn = TRUE]
    ELSE st

\* "The player is in the way" (melee2.c 2905-2927); r.melee holds the rolls
\* of the blows
PlayerInWay(st, i, n, r) ==
    LET w == st.w
        flags == w.race[w.mon[i].race].flags
        w1 == Learn(w, i, {"NEVER_BLOW"})
    IN  IF st.do_move /\ w.m_idx[n] < 0
        THEN IF "NEVER_BLOW" \in flags
             THEN [st EXCEPT !.w = w1, !.do_move = FALSE]
             ELSE [st EXCEPT
                      !.w = The({AfterMelee(w1, i, s) :
                                    s \in {make_attack_normal(MeleeOf(w1, i), r.melee)}}),
                      !.do_move = FALSE,
                      !.do_turn = TRUE]
        ELSE st

\* "Some monsters never move" (melee2.c 2930-2938)
NeverMove(st, i) ==
    IF st.do_move /\ "NEVER_MOVE" \in st.w.race[st.w.mon[i].race].flags
    THEN [st EXCEPT !.w = Learn(st.w, i, {"NEVER_MOVE"}), !.do_move = FALSE]
    ELSE st

\* "A monster is in the way" (melee2.c 2941-2992)
MonsterInWay(st, i, n) ==
    LET w == st.w
        m == w.mon[i]
        flags == w.race[m.race].flags
        j == w.m_idx[n]
        kill_ok == "KILL_BODY" \in flags
        move_ok == "MOVE_BODY" \in flags /\ square_ispassable(w, Pos(m))
        w1 == Learn(w, i, {"KILL_BODY", "MOVE_BODY"})
        w2 == IF is_mimicking(w1.mon[j]) THEN become_aware(w1, j) ELSE w1
        w3 == IF kill_ok
              THEN [delete_monster(w2, n) EXCEPT !.hist.last.kind = "trample"]
              ELSE [w2 EXCEPT !.hist.last.kind = "push"]
    IN  IF st.do_move /\ j > 0
        THEN IF compare_monsters(w, i, j) > 0
             THEN IF kill_ok \/ move_ok
                  THEN [st EXCEPT !.w = w3, !.do_move = TRUE]
                  ELSE [st EXCEPT !.w = w1, !.do_move = FALSE]
             ELSE [st EXCEPT !.do_move = FALSE]
        ELSE st

\* mutant: the move changes the monster's (fy,fx) and leaves the cave's
\* m_idx as it was
AllowedMove_fieldsOnly(st, i, o, n) ==
    IF st.do_move
    THEN [st EXCEPT !.w = [st.w EXCEPT !.mon[i].fy = n[1], !.mon[i].fx = n[2],
                                       !.hist.last.moved = TRUE,
                                       !.hist.last.from = o, !.hist.last.to = n],
                    !.do_turn = TRUE]
    ELSE st

\* "Creature has been allowed move" (melee2.c 2994-3005); the cave of the
\* model holds no objects, so the scan of the grid's objects finds none
AllowedMove(st, i, o, n) ==
    IF st.do_move
    THEN [st EXCEPT
             !.w = [monster_swap(Learn(st.w, i, {"NEVER_MOVE"}), o, n) EXCEPT
                       !.hist.last.moved = TRUE,
                       !.hist.last.steps = @ + 1,
                       !.hist.last.from = o, !.hist.last.to = n],
             !.do_turn = TRUE]
    ELSE st

\* one iteration of the loop "Process moves" (melee2.c 2774-3103) towards
\* the cell n: the blocks of the loop body, each working on the outcome of
\* the one before
MoveAttempt(st, i, o, n, r) ==
    The({AllowedMove(s5, i, o, n) :
            s5 \in {MonsterInWay(s4, i, n) :
               s4 \in {NeverMove(s3, i) :
                  s3 \in {PlayerInWay(s2, i, n, r) :
                     s2 \in {GlyphInWay(s1, i, n, r) :
                        s1 \in {TerrainInWay(
                                    [st EXCEPT
                                        !.w.hist.last.tries = @ + 1,
                                        !.w.hist.last.late =
                                            IF st.do_turn THEN @ + 1 ELSE @],
                                    i, n, r)}}}}}})

\* mutant: the loop goes on to the next direction after a turn was taken
RECURSIVE TryMoves_goesOn(_, _, _, _, _, _)
TryMoves_goesOn(st, i, o, dirs, k, r) ==
    IF k > 5 THEN st
    ELSE TryMoves_goesOn(MoveAttempt(st, i, o,
                                     <<o[1] + ddy(dirs[k]), o[2] + ddx(dirs[k])>>, r),
                         i, o, dirs, k + 1, r)

\* the loop "Process moves" from its iteration k on (melee2.c 2773-3107);
\* dirs holds the direction of each iteration
RECURSIVE TryMoves(_, _, _, _, _, _)
TryMoves(st, i, o, dirs, k, r) ==
    IF k > 5 THEN st
    ELSE The({IF s6.do_turn THEN s6 ELSE TryMoves(s6, i, o, dirs, k + 1, r) :
                 s6 \in {MoveAttempt(st, i, o,
                                     <<o[1] + ddy(dirs[k]), o[2] + ddx(dirs[k])>>, r)}})

\* process_monster after the loop (melee2.c 3109-3128)
AfterMoves(st, i) ==
    LET w == st.w
        do_view == st.do_view \/ "HAS_LIGHT" \in w.race[w.mon[i].race].flags
        w1 == IF do_view
              THEN [w EXCEPT !.p.update = @ \cup {"PU_UPDATE_VIEW", "PU_MONSTERS",
                                                 "PU_FORGET_FLOW", "PU_UPDATE_FLOW"}]
              ELSE w
        w2 == IF ~st.do_turn /\ ~st.do_move /\ w1.mon[i].m_timed.FEAR # 0
              THEN mon_clear_timed(w1, i, "FEAR") ELSE w1
        w3 == [w2 EXCEPT !.hist.last.turn = st.do_turn]
    IN  IF st.do_turn /\ w3.mon[i].unaware THEN become_aware(w3, i) ELSE w3

\* process_monster from "Process moves" on (melee2.c 2767-3128); o is the
\* origin and dirs the direction of each iteration
MovePhase(w, dirs, o, i, r) ==
    The({AfterMoves(lp, i) :
            lp \in {TryMoves([w |-> w, do_turn |-> FALSE, do_move |-> FALSE,
                              do_view |-> FALSE], i, o, dirs, 1, r)}})

\* process_monster from "Normal movement" on (melee2.c 2762-3128); sg is
\* the outcome of the stagger test
WalkPhase(sg, o, i, r) ==
    IF sg.stagger THEN MovePhase(sg.w, [k \in 1..5 |-> ddd(r.dirs[k])], o, i, r)
    ELSE The({IF ~gm.ok THEN sg.w ELSE MovePhase(sg.w, gm.mm, o, i, r) :
                 gm \in {get_moves(sg.w, i, r.flow)}})

\* process_monster after make_attack_spell came back as sp; w is the cave
\* it left (melee2.c 2720-3128)
AfterCast(w, ret, o, i, r) ==
    IF ret THEN w
    ELSE The({WalkPhase(sg, o, i, r) : sg \in {StaggerPhase(w, i, r.roll)}})

\* process_monster after the attempt to multiply came back as rp (melee2.c
\* 2711-3128)
AfterRepro(rp, o, i, r) ==
    IF rp.ret THEN rp.w
    ELSE IF is_mimicking(rp.w.mon[i]) THEN rp.w
    ELSE The({The({AfterCast(w4, sp.ret, o, i, r) : w4 \in {AfterSpell(rp.w, i, sp)}}) :
                 sp \in {make_attack_spell(SpellOf(rp.w, i), r.filter, r.cast)}})

\* process_monster from "Get the origin" on (melee2.c 2681-3128)
FromOrigin(w, i, r) ==
    The({AfterRepro(rp, Pos(w.mon[i]), i, r) :
            rp \in {ReproPhase(w, i, r.breed, r.at)}})

\* process_monster after the recovery from stun came back as su (melee2.c
\* 2656-3128)
AfterStun(su, i, r) ==
    IF su.ret THEN su.w
    ELSE The({FromOrigin(w3, i, r) :
                 w3 \in {FearDecay(ConfDecay(su.w, i, r.conf_d), i, r.fear_d)}})

\* process_monster after the handling of sleep came back as sl (melee2.c
\* 2629-3128)
AfterSleep(sl, i, r) ==
    IF sl.ret THEN sl.w
    ELSE The({AfterStun(su, i, r) :
                 su \in {StunDecay(SpeedDecay(sl.w, i), i, r.stun)}})

\* static void process_monster(struct cave *c, struct monster *m_ptr) for
\* monster i under the rolls r
process_monster(w, i, r) ==
    The({AfterSleep(sl, i, r) : sl \in {SleepPhase(w, i, r.notice)}})

\* static bool monster_can_flow(struct cave *c, struct monster *m_ptr)
monster_can_flow(w, i) ==
    LET f == Pos(w.mon[i])
    IN  /\ w.when[f] = w.when[PlayerPos(w)]
        /\ w.cost[f] < MONSTER_FLOW_DEPTH
        /\ w.cost[f] < EffectiveAaf(w, w.race[w.mon[i].race])

\* mutant: a hurt monster out of range and out of sight is left alone
ShouldProcess_ignoresHurt(w, i) ==
    LET m == w.mon[i]
    IN  \/ m.cdis <= EffectiveAaf(w, w.race[m.race])
        \/ player_has_los_bold(w, Pos(m))
        \/ monster_can_flow(w, i)

\* the test "Process the monster if the monster either ..." (melee2.c
\* 3203-3206)
ShouldProcess(w, i) ==
    LET m == w.mon[i]
    IN  \/ m.cdis <= EffectiveAaf(w, w.race[m.race])
        \/ m.hp < m.maxhp
        \/ player_has_los_bold(w, Pos(m))
        \/ monster_can_flow(w, i)

\* mutant: the scan stays on the same slot
NextIndex_stays(i) == i

\* the step of the loop of process_monsters: i--
NextIndex(i) == i - 1

\* what the model remembers of a pass: who was processed and the step made
NoMove ==
    [who |-> 0, kind |-> "none", moved |-> FALSE, from |-> <<0, 0>>, to |-> <<0, 0>>,
     turn |-> FALSE, k |-> -1, breed |-> "none", spelled |-> FALSE, attacks |-> 0,
     doors |-> 0, door |-> "none", steps |-> 0, tries |-> 0, late |-> 0,
     razed |-> 0, cell |-> <<0, 0>>, flip |-> FALSE]

\* mutant: only a monster that is processed uses up energy
ScanIteration_chargesProcessed(w, r) ==
    LET i == w.i
        m == w.mon[i]
        w0 == [w EXCEPT !.hist.last = NoMove]
        w1 == [w0 EXCEPT !.mon[i].energy = (@ - 100) % 256]
        w2 == [w1 EXCEPT !.hist.last.who = i,
                         !.hist.events = Append(@, <<"visit", i>>)]
    IN  The({[done EXCEPT !.i = NextIndex(w.i)] :
                done \in {IF ~Live(w, i) THEN w0
                          ELSE IF m.energy < w.min THEN w0
                          ELSE IF ShouldProcess(w1, i) THEN process_monster(w2, i, r)
                          ELSE w0}})

\* one iteration of the loop of process_monsters, after the test of
\* "leaving" (melee2.c 3182-3210), for slot w.i under the rolls r
ScanIteration(w, r) ==
    LET i == w.i
        m == w.mon[i]
        w0 == [w EXCEPT !.hist.last = NoMove]
        w1 == [w0 EXCEPT !.mon[i].energy = (@ - 100) % 256]
        w2 == [w1 EXCEPT !.hist.last.who = i,
                         !.hist.events = Append(@, <<"visit", i>>)]
    IN  The({[done EXCEPT !.i = NextIndex(w.i)] :
                done \in {IF ~Live(w, i) THEN w0
                          ELSE IF m.energy < w.min THEN w0
                          ELSE IF ShouldProcess(w1, i) THEN process_monster(w2, i, r)
                          ELSE w1}})

\* the rolls of the one blow of the races of the cave: a miss, a hit for the
\* least damage and a hit for the most; nothing repels, cuts or pushes
BlowRolls ==
    {<<[hit |-> h, repel |-> 99, maxdam |-> x, moved |-> FALSE, coin |-> 0,
        crit |-> <<>>, lo |-> TRUE, save |-> 99, blink |-> 0, lo2 |-> TRUE]>> :
        h \in BOOLEAN, x \in BOOLEAN} \
    {<<[hit |-> FALSE, repel |-> 99, maxdam |-> TRUE, moved |-> FALSE, coin |-> 0,
        crit |-> <<>>, lo |-> TRUE, save |-> 99, blink |-> 0, lo2 |-> TRUE]>>}

\* the rolls of a pass that draws none
NoRolls ==
    [notice |-> 0, stun |-> 4999, conf_d |-> 1, fear_d |-> 1, breed |-> FALSE,
     at |-> <<0, 0>>,
     filter |-> [desp |-> 75, forget |-> FALSE, mana |-> 75],
     cast |-> [cast |-> 75, pick |-> 0, fail |-> 99, dies |-> FALSE],
     roll |-> 90, flow |-> 50, dirs |-> <<0, 0, 0, 0, 0>>, bash |-> FALSE,
     lock |-> 0, glyph |-> BREAK_GLYPH, melee |-> <<>>]

\* the outcomes of the random rolls of the pass of monster i; a roll the
\* pass cannot draw, or whose outcome nobody can observe, keeps one value
PassRolls(w, i) ==
    LET m == w.mon[i]
        race == w.race[m.race]
        near == Rect(m.fy - 1, m.fy + 1, m.fx - 1, m.fx + 1)
        rands == race.flags \cap {"RAND_25", "RAND_50"} # {}
        staggers == m.m_timed.CONF # 0 \/ rands
        top == race.level \div 10 + 1
        casts == IF race.spell_flags = {} THEN {NoRolls.cast}
                 ELSE {NoRolls.cast} \cup
                      {c \in CastRolls(SpellOf(w, i)) : c.cast < 50 /\ c.fail # 30}
    IN  IF ~Live(w, i) \/ m.energy < w.min THEN {NoRolls}
        ELSE IF m.m_timed.SLEEP # 0
             THEN {[NoRolls EXCEPT !.notice = n] : n \in {0, 1023}}
        ELSE [notice : {0},
              stun : IF m.m_timed.STUN # 0 THEN {0, 4999} ELSE {4999},
              conf_d : IF m.m_timed.CONF # 0 THEN 1..top ELSE {1},
              fear_d : IF m.m_timed.FEAR # 0 THEN 1..top ELSE {1},
              breed : IF "MULTIPLY" \in race.flags \/ m.ml THEN BOOLEAN ELSE {FALSE},
              at : IF "MULTIPLY" \in race.flags
                   THEN EmptyNear(w, Pos(m)) \cup {<<0, 0>>} ELSE {<<0, 0>>},
              filter : IF race.spell_flags # {}
                       THEN FilterRolls(SpellOf(w, i)) ELSE {NoRolls.filter},
              cast : casts,
              roll : IF rands THEN {10, 30, 60, 90} ELSE IF m.ml THEN {10, 90} ELSE {90},
              flow : IF race.flags \cap {"PASS_WALL", "KILL_WALL"} # {}
                        /\ ~projectable(WorldLay(w, i), Pos(m), PlayerPos(w))
                     THEN {0, 50} ELSE {50},
              dirs : IF staggers
                     THEN {[k \in 1..5 |-> (a + k - 1) % 8] : a \in 0..7}
                     ELSE {NoRolls.dirs},
              bash : IF "BASH_DOOR" \in race.flags
                        /\ \E c \in near : w.feat[c] \in {"DOOR0", "DOOR1", "DOOR2",
                                                             "SECRET"}
                     THEN BOOLEAN ELSE {FALSE},
              lock : IF race.flags \cap {"OPEN_DOOR", "BASH_DOOR"} # {}
                        /\ \E c \in near : square_islockeddoor(w, c)
                     THEN {0, IF m.hp \div 10 > 1 THEN m.hp \div 10 - 1 ELSE 0}
                     ELSE {0},
              glyph : IF \E c \in near : square_iswarded(w, c)
                      THEN {1, BREAK_GLYPH} ELSE {BREAK_GLYPH},
              melee : IF PlayerPos(w) \in near /\ "NEVER_BLOW" \notin race.flags
                      THEN BlowRolls ELSE {<<>>}]

\* the race flags that decide what a step may enter
MoveFlags == {"PASS_WALL", "KILL_WALL", "BASH_DOOR", "KILL_BODY", "MOVE_BODY"}

\* what the first monster finds on the cell between it and the player
XKinds == {"floor", "granite", "rubble", "door", "locked", "secret", "glyph",
           "weak", "strong", "player", "playerglyph"}

\* the other first monsters tried (a "drunk" one is confused and of a lower
\* level), and the other second monsters
AKinds == {"caster", "rand50", "rand75", "noblow", "nomove", "opener", "light",
           "confused", "stunned", "afraid", "hasted", "mimic"}
BKinds == {"sleeper", "deep", "breeder", "hurt", "seen", "idle", "tired"}

\* the caves the scan is tried in; known is the count the lore counters of
\* the two races start from (deaths starts as far below MAX_SHORT as the
\* others below MAX_UCHAR)
Scenes ==
    {[aflags |-> F, akind |-> "plain", xkind |-> x,
      bkind |-> IF x \in {"weak", "strong"} THEN x ELSE "bystander",
      aggravate |-> FALSE, flow |-> FALSE, lit |-> TRUE, small |-> FALSE, known |-> 0] :
        F \in SUBSET MoveFlags, x \in XKinds}
    \cup
    {[aflags |-> F, akind |-> "drunk", xkind |-> x, bkind |-> "bystander",
      aggravate |-> FALSE, flow |-> FALSE, lit |-> TRUE, small |-> FALSE, known |-> 0] :
        F \in SUBSET MoveFlags, x \in {"player", "playerglyph"}}
    \cup
    {[aflags |-> {}, akind |-> k, xkind |-> x, bkind |-> "bystander",
      aggravate |-> FALSE, flow |-> FALSE, lit |-> TRUE, small |-> FALSE, known |-> 0] :
        k \in AKinds, x \in {"floor", "door", "player"}}
    \cup
    {[aflags |-> {}, akind |-> "plain", xkind |-> "floor", bkind |-> k,
      aggravate |-> g, flow |-> FALSE, lit |-> TRUE, small |-> FALSE, known |-> 0] :
        k \in {"sleeper", "deep"}, g \in BOOLEAN}
    \cup
    {[aflags |-> {}, akind |-> "plain", xkind |-> "floor", bkind |-> k,
      aggravate |-> FALSE, flow |-> FALSE, lit |-> TRUE, small |-> FALSE, known |-> 0] :
        k \in {"breeder", "tired"}}
    \cup
    {[aflags |-> {}, akind |-> "plain", xkind |-> "floor", bkind |-> k,
      aggravate |-> FALSE, flow |-> fl, lit |-> l, small |-> s, known |-> 0] :
        k \in {"hurt", "seen", "idle"}, fl \in BOOLEAN, l \in BOOLEAN, s \in BOOLEAN}
    \cup
    {[aflags |-> {}, akind |-> a, xkind |-> "player", bkind |-> b,
      aggravate |-> FALSE, flow |-> FALSE, lit |-> TRUE, small |-> FALSE,
      known |-> k] :
        a \in {"caster", "hasted"}, b \in {"sleeper", "deep"}, k \in {254, 255}}
    \cup
    {[aflags |-> F, akind |-> "nomove", xkind |-> x, bkind |-> "bystander",
      aggravate |-> FALSE, flow |-> FALSE, lit |-> TRUE, small |-> FALSE, known |-> 0] :
        F \in {{"BASH_DOOR"}, {"KILL_WALL"}}, x \in {"door", "granite"}}
    \cup
    {[aflags |-> F, akind |-> "plain", xkind |-> "lurker", bkind |-> b,
      aggravate |-> FALSE, flow |-> FALSE, lit |-> TRUE, small |-> FALSE, known |-> 0] :
        F \in SUBSET {"PASS_WALL", "KILL_WALL", "KILL_BODY", "MOVE_BODY"},
        b \in {"weak", "strong", "peer"}}
    \cup
    {[aflags |-> F \cup {"PASS_WALL"}, akind |-> "plain", xkind |-> "fromwall",
      bkind |-> "weak",
      aggravate |-> FALSE, flow |-> FALSE, lit |-> TRUE, small |-> FALSE, known |-> 0] :
        F \in SUBSET {"KILL_BODY", "MOVE_BODY"}}

\* the one blow of the races of the cave
OneBlow == PadBlows(<<[method |-> "HIT", effect |-> "HURT", d_dice |-> 3, d_side |-> 10]>>)

\* the cave of a scene: a 3x3 room inside permanent rock with a granite
\* pillar in its middle, the first monster (slot 2) in the corner (1,1), the
\* cell X = (1,2) next to it, the player on X or behind it on (1,3), the
\* second monster (slot 1) on X or in the corner (3,3); a "lurker" is a
\* second monster that passes walls and stands in the granite of X, and in
\* "fromwall" the first monster stands in granite; a "peer" is a second
\* monster of the same experience value as the first
MakeWorld(sc) ==
    LET X == <<1, 2>>
        pp == IF sc.xkind \in {"player", "playerglyph"} THEN X ELSE <<1, 3>>
        apos == <<1, 1>>
        bpos == IF sc.xkind \in {"weak", "strong", "lurker", "fromwall"}
                THEN X ELSE <<3, 3>>
        xfeat == CASE sc.xkind \in {"granite", "lurker"} -> "GRANITE"
                   [] sc.xkind = "rubble" -> "RUBBLE"
                   [] sc.xkind = "door" -> "DOOR0"
                   [] sc.xkind = "locked" -> "DOOR2"
                   [] sc.xkind = "secret" -> "SECRET"
                   [] sc.xkind \in {"glyph", "playerglyph"} -> "GLYPH"
                   [] OTHER -> "FLOOR"
        feat == [c \in Cells |->
                    IF ~(c[1] \in 1..(Height - 2) /\ c[2] \in 1..(Width - 2)) THEN "PERM"
                    ELSE IF c = X THEN xfeat
                    ELSE IF c = <<2, 2>> THEN "GRANITE"
                    ELSE IF c = apos /\ sc.xkind = "fromwall" THEN "GRANITE"
                    ELSE "FLOOR"]
        open == {c \in Cells : feat[c] \in {"FLOOR", "GLYPH", "OPEN", "BROKEN"}}
        lay == [h |-> Height, w |-> Width, mon |-> apos, player |-> pp,
                floor |-> open, occ |-> {}, ward |-> {}]
        aextra == CASE sc.akind = "rand50" -> {"RAND_50"}
                    [] sc.akind = "rand75" -> {"RAND_25", "RAND_50"}
                    [] sc.akind = "noblow" -> {"NEVER_BLOW"}
                    [] sc.akind = "nomove" -> {"NEVER_MOVE"}
                    [] sc.akind = "opener" -> {"OPEN_DOOR"}
                    [] sc.akind = "light" -> {"HAS_LIGHT"}
                    [] OTHER -> {}
        atimed == CASE sc.akind \in {"confused", "drunk"} -> [NoTimers EXCEPT !.CONF = 3]
                    [] sc.akind = "stunned" -> [NoTimers EXCEPT !.STUN = 2]
                    [] sc.akind = "afraid" -> [NoTimers EXCEPT !.FEAR = 3]
                    [] sc.akind = "hasted" -> [NoTimers EXCEPT !.FAST = 5, !.SLOW = 1]
                    [] OTHER -> NoTimers
        btimed == CASE sc.bkind = "sleeper" -> [NoTimers EXCEPT !.SLEEP = 20]
                    [] sc.bkind = "deep" -> [NoTimers EXCEPT !.SLEEP = 120]
                    [] OTHER -> NoTimers
        raceA == [flags |-> sc.aflags \cup aextra,
                  level |-> IF sc.akind = "drunk" THEN 5 ELSE 10, mexp |-> 50, aaf |-> 20,
                  spell_flags |-> IF sc.akind = "caster" THEN {"HASTE", "BO_FIRE"} ELSE {},
                  freq_innate |-> IF sc.akind = "caster" THEN 50 ELSE 0,
                  freq_spell |-> IF sc.akind = "caster" THEN 50 ELSE 0,
                  blow |-> OneBlow]
        raceB == [flags |-> IF sc.bkind = "breeder" THEN {"MULTIPLY"}
                            ELSE IF sc.xkind = "lurker" THEN {"PASS_WALL"} ELSE {},
                  level |-> 10,
                  mexp |-> IF sc.bkind = "strong" THEN 90
                           ELSE IF sc.bkind = "peer" THEN 50 ELSE 10,
                  aaf |-> IF sc.bkind \in {"hurt", "seen", "idle"} THEN 1 ELSE 20,
                  spell_flags |-> {}, freq_innate |-> 0, freq_spell |-> 0,
                  blow |-> OneBlow]
        a == [DeadMonster EXCEPT
                 !.race = "A", !.fy = apos[1], !.fx = apos[2], !.hp = 60, !.maxhp = 60,
                 !.energy = 200, !.cdis = distance(apos, pp), !.m_timed = atimed,
                 !.ml = (sc.akind # "plain"), !.unaware = (sc.akind = "mimic")]
        b == [DeadMonster EXCEPT
                 !.race = "B", !.fy = bpos[1], !.fx = bpos[2],
                 !.hp = IF sc.bkind = "hurt" THEN 10 ELSE 20, !.maxhp = 20,
                 !.energy = IF sc.bkind = "tired" THEN 50 ELSE 200,
                 !.cdis = distance(bpos, pp), !.m_timed = btimed,
                 !.ml = (sc.bkind \in {"sleeper", "deep", "breeder"})]
        nolore == [flags |-> {}, wake |-> sc.known, ignore |-> sc.known,
                   blows |-> [k \in 1..MONSTER_BLOW_MAX |-> sc.known],
                   cast_innate |-> sc.known, cast_spell |-> sc.known,
                   spell_flags |-> {},
                   deaths |-> IF sc.known = 0 THEN 0
                              ELSE MAX_SHORT - (MAX_UCHAR - sc.known)]
    IN  [pc |-> "idle", calls |-> 0, min |-> 0, i |-> 0,
         scene |-> sc,
         height |-> Height, width |-> Width,
         feat |-> feat,
         m_idx |-> [c \in Cells |-> IF c = pp THEN -1 ELSE IF c = apos THEN 2
                                    ELSE IF c = bpos THEN 1 ELSE 0],
         mon |-> [j \in 1..MaxMon |-> IF j = 2 THEN a ELSE IF j = 1 THEN b ELSE DeadMonster],
         mon_max |-> 3,
         race |-> [A |-> raceA, B |-> raceB],
         lore |-> [A |-> nolore, B |-> nolore],
         p |-> [py |-> pp[1], px |-> pp[2], lev |-> 30, chp |-> 25, mhp |-> 100,
                ac |-> 0, protevil |-> 0, cut |-> 0, stun |-> 0, noise |-> 100,
                aggravate |-> sc.aggravate, blind |-> FALSE, leaving |-> FALSE,
                is_dead |-> FALSE, update |-> {}],
         num_repro |-> IF sc.bkind = "breeder" THEN 1 ELSE 0,
         when |-> [c \in Cells |-> IF sc.flow /\ c \in open THEN 1 ELSE 0],
         cost |-> [c \in Cells |-> IF sc.flow /\ c \in open
                                   THEN (IF Abs(c[1] - pp[1]) > Abs(c[2] - pp[2])
                                         THEN Abs(c[1] - pp[1]) ELSE Abs(c[2] - pp[2]))
                                   ELSE 0],
         view |-> IF sc.lit THEN {c \in Cells : los(lay, pp, c)} ELSE {},
         learn |-> FALSE, small_range |-> sc.small,
         hist |-> [events |-> <<>>, cast |-> <<>>,
                   pre |-> [j \in 1..MaxMon |-> NoTimers], max0 |-> 3, last |-> NoMove,
                   mon0 |-> [j \in 1..MaxMon |-> DeadMonster]]]

\* the values of minimum_energy process_monsters is called with
MinEnergies == {100, 110}

Init ==
    /\ crit = CritIdle
    /\ spell = SpellIdle
    /\ melee = MeleeIdle
    /\ \E sc \in Scenes : world = MakeWorld(sc)

\* process_monsters(c, minimum_energy) is called: the scan starts at the
\* last slot in use (melee2.c 3175)
ProcessMonstersCall ==
    /\ world.pc = "idle"
    /\ world.calls < MaxCalls
    /\ \E min \in MinEnergies :
          world' = [world EXCEPT
                       !.pc = "scan", !.calls = @ + 1, !.min = min,
                       !.i = world.mon_max - 1,
                       !.hist = [events |-> <<>>, cast |-> <<>>,
                                 pre |-> [j \in 1..MaxMon |-> world.mon[j].m_timed],
                                 max0 |-> world.mon_max, last |-> NoMove,
                                 mon0 |-> world.mon]]
    /\ UNCHANGED <<crit, spell, melee>>

\* one iteration of the loop: the slot is skipped or its monster processed
ScanStep ==
    /\ world.pc = "scan"
    /\ world.i >= 1
    /\ ~world.p.leaving
    /\ \E r \in PassRolls(world, world.i) : world' = ScanIteration(world, r)
    /\ UNCHANGED <<crit, spell, melee>>

\* the loop ends: no slot is left, or the player is leaving (melee2.c 3175,
\* 3180)
ProcessMonstersReturn ==
    /\ world.pc = "scan"
    /\ world.i < 1 \/ world.p.leaving
    /\ world' = [world EXCEPT !.pc = "idle"]
    /\ UNCHANGED <<crit, spell, melee>>

Next == ProcessMonstersCall \/ ScanStep \/ ProcessMonstersReturn

Spec == Init /\ [][Next]_vars

(***************************************************************************)
(* Properties of the scan                                                  *)
(***************************************************************************)

\* how often slot j was passed to process_monster in the current call
VisitCount(w, j) ==
    Cardinality({k \in 1..Len(w.hist.events) : w.hist.events[k] = <<"visit", j>>})

\* the step from the unprimed to the primed cave passes slot j to
\* process_monster
Visiting(j) ==
    /\ world.pc = "scan"
    /\ world'.pc = "scan"
    /\ Len(world'.hist.events) > Len(world.hist.events)
    /\ world'.hist.events[Len(world.hist.events) + 1] = <<"visit", j>>

\* C1: every live monster stands on a cell of the cave, the cave's m_idx of
\* that cell is the monster's index, no two live monsters share a cell and
\* every positive m_idx names a live monster standing there; after a step
\* that was allowed (plain move, push past, trample) the mover stands on the
\* destination, which names it, and its origin no longer does
C1_PositionsMatchGrid ==
    /\ \A j \in 1..MaxMon :
          Live(world, j) =>
             /\ Pos(world.mon[j]) \in Cells
             /\ world.m_idx[Pos(world.mon[j])] = j
    /\ \A j, k \in 1..MaxMon :
          Live(world, j) /\ Live(world, k) /\ j # k =>
             Pos(world.mon[j]) # Pos(world.mon[k])
    /\ \A c \in Cells :
          world.m_idx[c] > 0 =>
             Live(world, world.m_idx[c]) /\ Pos(world.mon[world.m_idx[c]]) = c
    /\ world.hist.last.moved =>
          /\ Live(world, world.hist.last.who)
          /\ Pos(world.mon[world.hist.last.who]) = world.hist.last.to
          /\ world.m_idx[world.hist.last.to] = world.hist.last.who
          /\ world.m_idx[world.hist.last.from] # world.hist.last.who

\* a MOVE_BODY monster has pushed past a weaker one: the two have changed
\* places
C1_Witness ==
    /\ world.hist.last.moved
    /\ world.hist.last.kind = "push"
    /\ world.m_idx[world.hist.last.from] > 0
    /\ world.m_idx[world.hist.last.to] = world.hist.last.who

\* C2: no step of the scan leaves a live monster on the cell the player
\* stood on before the step, nor on the cell the player stands on after it
C2_NeverOntoPlayer ==
    [][\A j \in 1..MaxMon :
          Live(world', j) =>
             /\ Pos(world'.mon[j]) # PlayerPos(world)
             /\ Pos(world'.mon[j]) # PlayerPos(world')]_vars

\* a staggering monster with every one of the five flags has broken the
\* glyph under the player and attacked without stepping onto the cell
C2_Witness ==
    /\ world.scene.xkind = "playerglyph"
    /\ world.scene.akind = "drunk"
    /\ world.scene.aflags = MoveFlags
    /\ world.feat[PlayerPos(world)] = "FLOOR"
    /\ world.hist.last.kind = "attack"
    /\ world.m_idx[PlayerPos(world)] < 0

\* the monster in slot j has the energy for a turn and meets one of the four
\* conditions: it senses the player, it is hurt, the player sees its cell,
\* the flow reaches it
Eligible(w, j) ==
    /\ Live(w, j)
    /\ w.mon[j].energy >= w.min
    /\ \/ w.mon[j].cdis <= (IF w.small_range THEN w.race[w.mon[j].race].aaf \div 2
                            ELSE w.race[w.mon[j].race].aaf)
       \/ w.mon[j].hp < w.mon[j].maxhp
       \/ Pos(w.mon[j]) \in w.view
       \/ /\ w.when[Pos(w.mon[j])] = w.when[PlayerPos(w)]
          /\ w.cost[Pos(w.mon[j])] < MONSTER_FLOW_DEPTH
          /\ w.cost[Pos(w.mon[j])] < (IF w.small_range
                                      THEN w.race[w.mon[j].race].aaf \div 2
                                      ELSE w.race[w.mon[j].race].aaf)

\* a slot the scan reaches is passed to process_monster exactly when its
\* monster is eligible, and no slot is passed twice in a call
ProcessedIfReached ==
    /\ world.pc = "scan" /\ world'.pc = "scan" =>
          VisitCount(world', world.i) =
              VisitCount(world, world.i) + (IF Eligible(world, world.i) THEN 1 ELSE 0)
    /\ \A j \in 1..MaxMon : VisitCount(world', j) <= 1

\* C3 as stated: in every call each eligible monster is processed exactly
\* once; in particular the call does not return while an eligible monster
\* waits in a slot the scan has not reached
C3_EveryEligibleOnce ==
    [][/\ ProcessedIfReached
       /\ world.pc = "scan" /\ world'.pc = "idle" =>
             \A j \in 1..world.i : ~Eligible(world, j)]_vars

\* C3 for the calls the player does not cut short: each eligible monster is
\* processed exactly once unless the player starts to leave the level during
\* the call, which ends the scan before the slots below are reached
C3_EveryEligibleOnceUnlessLeaving ==
    [][/\ ProcessedIfReached
       /\ world.pc = "scan" /\ world'.pc = "idle" /\ ~world.p.leaving =>
             \A j \in 1..world.i : ~Eligible(world, j)]_vars

\* a call has returned in which a monster out of range, out of sight and
\* off the flow was processed because it is hurt, after the monster in the
\* slot above it
C3_Witness ==
    /\ world.pc = "idle"
    /\ world.calls = 1
    /\ ~world.p.leaving
    /\ world.scene.bkind = "hurt"
    /\ ~world.scene.lit
    /\ ~world.scene.flow
    /\ world.hist.events = <<(<<"visit", 2>>), (<<"visit", 1>>)>>

\* C4: within a call the slots passed to process_monster have strictly
\* decreasing indices below cave_monster_max, and no slot is passed to it
\* after its monster was deleted in that call
C4_DecreasingOrderSkipsDeleted ==
    \A k \in 1..Len(world.hist.events) :
       world.hist.events[k][1] = "visit" =>
          /\ world.hist.events[k][2] >= 1
          /\ world.hist.events[k][2] < world.hist.max0
          /\ \A l \in 1..(k - 1) :
                /\ world.hist.events[l][1] = "visit" =>
                      world.hist.events[k][2] < world.hist.events[l][2]
                /\ world.hist.events[l][1] = "delete" =>
                      world.hist.events[k][2] # world.hist.events[l][2]

\* a KILL_BODY monster trampled the monster of the slot below, which had the
\* energy for a turn, and the call returned without processing that slot
C4_Witness ==
    /\ world.pc = "idle"
    /\ world.calls = 1
    /\ ~world.p.leaving
    /\ world.scene.xkind = "weak"
    /\ world.hist.events = <<(<<"visit", 2>>), (<<"delete", 1>>)>>

\* C5: a pass that starts with SLEEP > 0 leaves the cave as it was but for
\* the monster's SLEEP timer, which does not grow, the lore's wake and
\* ignore counters, and the energy and the position of the scan that
\* process_monsters itself updates
C5_SleeperOnlySleeps ==
    [][\A j \in 1..MaxMon :
          Visiting(j) /\ world.mon[j].m_timed.SLEEP > 0 =>
             /\ world'.mon[j].m_timed.SLEEP <= world.mon[j].m_timed.SLEEP
             /\ [world' EXCEPT
                    !.i = world.i,
                    !.hist = world.hist,
                    !.mon[j].energy = world.mon[j].energy,
                    !.mon[j].m_timed.SLEEP = world.mon[j].m_timed.SLEEP,
                    !.lore[world.mon[j].race].wake = world.lore[world.mon[j].race].wake,
                    !.lore[world.mon[j].race].ignore = world.lore[world.mon[j].race].ignore]
                = world]_vars

\* a visible sleeper has been woken by the noise roll: its SLEEP is zero,
\* the lore has counted the waking, and it stands where it slept
C5_Witness ==
    /\ world.scene.bkind = "sleeper"
    /\ ~world.scene.aggravate
    /\ world.hist.last.who = 1
    /\ world.mon[1].m_timed.SLEEP = 0
    /\ world.lore["B"].wake = 1
    /\ Pos(world.mon[1]) = <<3, 3>>

\* monster j has cast HASTE on itself in the current call
Hasted(w, j) == \E k \in 1..Len(w.hist.cast) : w.hist.cast[k] = <<j, "HASTE">>

\* C6: during and after a call every timer of every monster is at least
\* zero, and every timer of a monster that was there when the call began is
\* at most its value at that time, plus 50 for FAST when the monster cast
\* HASTE in the call
C6_TimersOnlyDecay ==
    world.calls > 0 =>
       \A j \in 1..MaxMon, t \in TimerNames :
          /\ world.mon[j].m_timed[t] >= 0
          /\ j < world.hist.max0 =>
                world.mon[j].m_timed[t] <=
                    world.hist.pre[j][t]
                    + (IF t = "FAST" /\ Hasted(world, j) THEN 50 ELSE 0)

\* a call has returned in which a monster cast HASTE, so that its FAST is
\* above the value it had when the call began
C6_Witness ==
    /\ world.pc = "idle"
    /\ world.calls > 0
    /\ Hasted(world, 2)
    /\ world.mon[2].m_timed.FAST > world.hist.pre[2].FAST

(***************************************************************************)
(* The lore counters (melee2.c 361-378, 2486-2517, 2602-2624)              *)
(***************************************************************************)

\* the counters of a lore record that stop at MAX_UCHAR
ByteCounters(l) ==
    <<l.cast_innate, l.cast_spell, l.wake, l.ignore>> \o l.blows

\* the counter that held c holds d afterwards: not less, within the limit
\* max, and unchanged if it was at the limit
Saturates(c, d, max) == d >= c /\ d <= max /\ (c = max => d = c)

\* C17: the lore counters cast_innate, cast_spell, blows[0..3], wake and
\* ignore stay at or below MAX_UCHAR and deaths at or below MAX_SHORT, none
\* of them ever decreases, and one that is at its limit stays as it is
C17_LoreCountersSaturate ==
    /\ \A r \in DOMAIN world.lore :
          /\ \A k \in 1..Len(ByteCounters(world.lore[r])) :
                ByteCounters(world.lore[r])[k] \in 0..MAX_UCHAR
          /\ world.lore[r].deaths \in 0..MAX_SHORT
    /\ [][\A r \in DOMAIN world.lore :
             /\ \A k \in 1..Len(ByteCounters(world.lore[r])) :
                   Saturates(ByteCounters(world.lore[r])[k],
                             ByteCounters(world.lore[r]')[k], MAX_UCHAR)
             /\ Saturates(world.lore[r].deaths, world.lore[r].deaths', MAX_SHORT)]_vars

\* with every counter at its limit, the first monster cast a spell in view
\* and the second one, asleep and in view, woke up: cast_spell and wake are
\* still at MAX_UCHAR
C17_Witness ==
    /\ world.scene.known = MAX_UCHAR /\ world.scene.bkind = "sleeper"
    /\ world.hist.cast # <<>> /\ world.lore.A.cast_spell = MAX_UCHAR
    /\ world.mon[1].m_timed.SLEEP = 0 /\ world.lore.B.wake = MAX_UCHAR

(***************************************************************************)
(* A monster before a locked door (melee2.c 2821-2878): repeated passes of *)
(* process_monster for the first monster of the cave                       *)
(***************************************************************************)

\* the cell of the door
DoorCell == <<1, 2>>

\* the caves tried: the door's lock, the monster's hit points and the race
\* flags that decide what it does with a door
DoorScenes ==
    {[feat |-> f, hp |-> h, flags |-> F, ml |-> v] :
        f \in {"DOOR1", "DOOR2"}, h \in {20, 30, 60},
        F \in {{"OPEN_DOOR"}, {"BASH_DOOR"}, {"OPEN_DOOR", "BASH_DOOR"},
               {"BASH_DOOR", "PASS_WALL"}, {"OPEN_DOOR", "KILL_WALL"}},
        v \in BOOLEAN}

\* the cave of a scene: the cave with a locked door between the monster and
\* the player, with the monster's hit points, visibility and race flags set;
\* tick tells one pass from the next and rolled is randint0(hp / 10) of the
\* last pass
DoorWorld(ds) ==
    LET w == MakeWorld([aflags |-> ds.flags, akind |-> "plain", xkind |-> "locked",
                        bkind |-> "bystander", aggravate |-> FALSE, flow |-> FALSE,
                        lit |-> TRUE, small |-> FALSE, known |-> 0])
    IN  [w EXCEPT !.pc = "door", !.feat[DoorCell] = ds.feat,
                  !.mon[2].hp = ds.hp, !.mon[2].maxhp = ds.hp, !.mon[2].ml = ds.ml]
        @@ [tick |-> 0, rolled |-> 0]

DoorInit ==
    /\ crit = CritIdle
    /\ spell = SpellIdle
    /\ melee = MeleeIdle
    /\ \E ds \in DoorScenes : world = DoorWorld(ds)

\* the cave after process_monster for the first monster under the rolls r
DoorPassed(w, r) ==
    The({[done EXCEPT !.tick = 1 - @, !.rolled = r.lock] :
            done \in {process_monster([w EXCEPT !.hist.last = [NoMove EXCEPT !.who = 2]],
                                      2, r)}})

\* a pass of the monster while it stands before the closed door
DoorPass ==
    /\ world.pc = "door"
    /\ square_iscloseddoor(world, DoorCell)
    /\ Pos(world.mon[2]) = <<1, 1>>
    /\ \E r \in PassRolls(world, 2) : world' = DoorPassed(world, r)
    /\ UNCHANGED <<crit, spell, melee>>

\* a pass in which randint0(hp / 10) comes out as its largest value
DoorPassLucky ==
    /\ world.pc = "door"
    /\ square_iscloseddoor(world, DoorCell)
    /\ Pos(world.mon[2]) = <<1, 1>>
    /\ \E r \in PassRolls(world, 2) :
          /\ \A q \in PassRolls(world, 2) : q.lock <= r.lock
          /\ world' = DoorPassed(world, r)
    /\ UNCHANGED <<crit, spell, melee>>

DoorNext == DoorPass \/ DoorPassLucky

\* the passes go on while the door is closed, and the largest roll keeps
\* coming up
SpecDoor ==
    DoorInit /\ [][DoorNext]_vars /\ WF_vars(DoorPass) /\ SF_vars(DoorPassLucky)

\* the race of the monster neither passes through walls nor eats them
Handy(w) == w.race["A"].flags \cap {"PASS_WALL", "KILL_WALL"} = {}

\* the door has been opened or smashed
DoorGivesWay == world.feat[DoorCell] \in {"OPEN", "BROKEN"}

\* a pass before the locked door takes the turn, leaves the monster where it
\* is, and lowers the lock by exactly one if randint0(hp / 10) came out above
\* the lock's power, else leaves the door as it is
LockedPassWearsDown ==
    /\ world'.hist.last.turn
    /\ Pos(world'.mon[2]) = Pos(world.mon[2])
    /\ world'.m_idx = world.m_idx
    /\ square_iscloseddoor(world', DoorCell)
    /\ square_door_power(world', DoorCell) =
          square_door_power(world, DoorCell)
          - (IF world'.rolled > square_door_power(world, DoorCell) THEN 1 ELSE 0)

\* C12 as stated: for every race with OPEN_DOOR or BASH_DOOR, each pass
\* before a locked door takes the turn without a move and lowers the lock by
\* one exactly when randint0(hp / 10) exceeds its power, and under fair rolls
\* the door is in the end opened or smashed
C12_LockedDoorGivesWay ==
    /\ [][square_islockeddoor(world, DoorCell) => LockedPassWearsDown]_vars
    /\ (square_islockeddoor(world, DoorCell) ~> DoorGivesWay)

\* C12 for the monsters that can do it: the race has OPEN_DOOR or BASH_DOOR
\* and neither PASS_WALL nor KILL_WALL, and for the door to give way in the
\* end hp / 10 is above the lock's power plus one, so that the roll can
\* exceed the power
C12_LockedDoorGivesWayIfStrong ==
    /\ [][Handy(world) /\ square_islockeddoor(world, DoorCell) =>
             LockedPassWearsDown]_vars
    /\ (Handy(world) /\ square_islockeddoor(world, DoorCell)
           /\ world.mon[2].hp \div 10 > square_door_power(world, DoorCell) + 1)
          ~> DoorGivesWay

\* a monster of 30 hit points has rolled 2 against a lock of power 1: the
\* door is closed and no longer locked, and the monster has not moved
C12_Witness ==
    /\ world.pc = "door"
    /\ world.mon[2].hp = 30
    /\ world.rolled = 2
    /\ world.feat[DoorCell] = "DOOR0"
    /\ world.hist.last.turn
    /\ Pos(world.mon[2]) = <<1, 1>>

(***************************************************************************)
(* The movement decisions as functions of the cave (melee2.c 399-1249)     *)
(***************************************************************************)

\* the size of the cave of the movement scenes; its outer ring is rock
AIHeight == 7
AIWidth == 12
AICells == Rect(0, AIHeight - 1, 0, AIWidth - 1)
AIInside == Rect(1, AIHeight - 2, 1, AIWidth - 2)

\* the floor of the two caves: a hall that fills the inside, and a corridor
\* along row 3 with a passage going north from (3,7) and a nook at (2,10)
AIFloor(cave) ==
    IF cave = "hall" THEN AIInside
    ELSE Rect(3, 3, 1, 10) \cup {<<2, 7>>, <<1, 7>>, <<2, 10>>}

\* the 8 neighbours of a cell
Around(c) == {<<c[1] + dy, c[2] + dx>> : dy \in -1..1, dx \in -1..1} \ {c}

\* the flow costs cave_update_flow leaves: the pairs <<cell, cost>> of the
\* cells of open reached from the cells of front, which have cost d
RECURSIVE Spread(_, _, _, _)
Spread(open, front, seen, d) ==
    IF front = {} THEN {}
    ELSE LET next == {n \in open \ seen : \E c \in front : n \in Around(c)}
         IN  {<<c, d>> : c \in front} \cup Spread(open, next, seen \cup next, d + 1)

\* the cost of cell c in the set of pairs fl, 0 when it was not reached
CostIn(fl, c) ==
    IF \E e \in fl : e[1] = c THEN (CHOOSE e \in fl : e[1] = c)[2] ELSE 0

\* the grids the player views: all of a lit hall; in the corridors those on
\* the player's row, column or diagonal with nothing but floor in between
AIView(cave, floor, pp) ==
    IF cave = "hall" THEN AICells
    ELSE {c \in AICells :
            /\ c[1] = pp[1] \/ c[2] = pp[2]
                  \/ Abs(c[1] - pp[1]) = Abs(c[2] - pp[2])
            /\ \A b \in Between(pp, c) : b \in floor}

\* the scenes: the cave, the player's cell pp and the monster's cell mp, the
\* cells turned to rubble since the flow of the player's earlier stay on pp0,
\* whether the cave holds flow stamps, whether the player is blind (views
\* nothing), the monster's slot, fear, hit points, and the player's level
\* and hit points
AIBase ==
    [cave |-> "passages", pp |-> <<3, 1>>, mp |-> <<3, 8>>, pp0 |-> <<3, 1>>,
     rubble |-> {}, flow |-> TRUE, blind |-> FALSE, who |-> 1, fear |-> 0,
     hp |-> 20, lev |-> 40, chp |-> 100, flags |-> {}]

AIPowerScenes ==
    {[AIBase EXCEPT !.who = i, !.hp = h, !.lev = l, !.chp = c, !.fear = f] :
        i \in {1, 8}, h \in {0, 10, 20}, c \in {0, 50, 100}, f \in {0, 3},
        l \in {21, 22, 23, 26, 29, 30, 31, 34, 37, 38, 39}}

AISafetyScenes ==
    {[AIBase EXCEPT !.pp = <<3, px>>, !.mp = <<3, mx>>, !.flow = fl, !.blind = b] :
        px \in {1, 2}, mx \in 4..10, fl \in BOOLEAN, b \in BOOLEAN}

AIFlowScenes ==
    {[AIBase EXCEPT !.cave = "hall", !.blind = TRUE, !.pp = p, !.mp = m,
                    !.pp0 = <<3, 5>>, !.rubble = r, !.lev = 10, !.flags = fl] :
        p \in {<<1, 1>>, <<3, 2>>, <<5, 9>>}, m \in Rect(2, 4, 4, 6),
        r \in {{}, {<<2, 4>>}, {<<3, 6>>, <<4, 5>>}},
        fl \in {{}, {"PASS_WALL"}}}

AIStepScenes ==
    {[AIBase EXCEPT !.cave = "hall", !.flow = FALSE, !.pp = p, !.mp = m,
                    !.lev = l] :
        p \in {<<3, 5>>, <<2, 3>>}, m \in AIInside, l \in {10, 40}}

AIScenes ==
    {sc \in AIPowerScenes \cup AISafetyScenes \cup AIFlowScenes \cup AIStepScenes :
        sc.mp # sc.pp /\ sc.mp \notin sc.rubble /\ sc.pp \notin sc.rubble}

\* the result of a decision that has not been taken
NoOut == [ok |-> FALSE, y |-> 0, x |-> 0, mm |-> <<>>]

\* the cave of a scene
MakeAIWorld(sc) ==
    LET floor == AIFloor(sc.cave) \ sc.rubble
        old == Spread(floor \cup sc.rubble, {sc.pp0}, {sc.pp0}, 0)
        new == Spread(floor, {sc.pp}, {sc.pp}, 0)
        stale == {c \in sc.rubble : \E e \in old : e[1] = c}
        fresh == {c \in floor : \E e \in new : e[1] = c}
        m == [DeadMonster EXCEPT
                 !.race = "A", !.fy = sc.mp[1], !.fx = sc.mp[2],
                 !.hp = sc.hp, !.maxhp = 20, !.energy = 200,
                 !.cdis = distance(sc.mp, sc.pp),
                 !.m_timed = [NoTimers EXCEPT !.FEAR = sc.fear]]
    IN  [pc |-> "ready", scene |-> sc, who |-> sc.who,
         height |-> AIHeight, width |-> AIWidth,
         feat |-> [c \in AICells |->
                      IF c \in sc.rubble THEN "RUBBLE"
                      ELSE IF c \in floor THEN "FLOOR"
                      ELSE IF c \in AIInside THEN "GRANITE" ELSE "PERM"],
         m_idx |-> [c \in AICells |->
                      IF c = sc.pp THEN -1 ELSE IF c = sc.mp THEN sc.who ELSE 0],
         mon |-> [j \in 1..8 |-> IF j = sc.who THEN m ELSE DeadMonster],
         race |-> [A |-> [flags |-> sc.flags, level |-> 1, mexp |-> 50, aaf |-> 20,
                          spell_flags |-> {}, freq_innate |-> 0, freq_spell |-> 0,
                          blow |-> OneBlow]],
         p |-> [py |-> sc.pp[1], px |-> sc.pp[2], lev |-> sc.lev, chp |-> sc.chp,
                mhp |-> 100],
         when |-> [c \in AICells |->
                      IF ~sc.flow THEN 0
                      ELSE IF c \in fresh THEN 2 ELSE IF c \in stale THEN 1 ELSE 0],
         cost |-> [c \in AICells |->
                      IF ~sc.flow THEN 0
                      ELSE IF c \in fresh THEN CostIn(new, c)
                      ELSE IF c \in stale THEN CostIn(old, c) ELSE 0],
         view |-> IF sc.blind THEN {} ELSE AIView(sc.cave, floor, sc.pp),
         small_range |-> FALSE,
         out |-> NoOut]

AIInit ==
    /\ crit = CritIdle
    /\ spell = SpellIdle
    /\ melee = MeleeIdle
    /\ \E sc \in AIScenes : world = MakeAIWorld(sc)

\* one call of mon_will_run
WillRun ==
    /\ world.pc = "ready"
    /\ world' = [world EXCEPT !.pc = "mon_will_run",
                              !.out.ok = mon_will_run(world, world.who)]
    /\ UNCHANGED <<crit, spell, melee>>

\* one call of find_safety; (y, x) comes in as the step towards the player
FindSafety ==
    /\ world.pc = "ready"
    /\ LET m == world.mon[world.who]
           r == find_safety(world, world.who, m.fy - world.p.py, m.fx - world.p.px)
       IN  world' = [world EXCEPT !.pc = "find_safety",
                                  !.out = [NoOut EXCEPT !.ok = r.ok, !.y = r.y, !.x = r.x]]
    /\ UNCHANGED <<crit, spell, melee>>

\* one call of get_moves_aux; (y, x) comes in as the player's cell
GetMovesAux ==
    /\ world.pc = "ready"
    /\ \E flowroll \in {0, 50} :
          LET r == get_moves_aux(world, world.who, flowroll)
          IN  world' = [world EXCEPT !.pc = "get_moves_aux",
                                     !.out = [NoOut EXCEPT !.ok = r.ok, !.y = r.y, !.x = r.x]]
    /\ UNCHANGED <<crit, spell, melee>>

\* one call of get_moves
GetMoves ==
    /\ world.pc = "ready"
    /\ \E flowroll \in {0, 50} :
          LET r == get_moves(world, world.who, flowroll)
          IN  world' = [world EXCEPT !.pc = "get_moves",
                                     !.out = [ok |-> r.ok, y |-> r.y, x |-> r.x,
                                              mm |-> r.mm]]
    /\ UNCHANGED <<crit, spell, melee>>

\* bound: the desired deltas (y, x) handed to the end of get_moves reach
\* MaxDelta on either axis
MaxDelta == 3

\* the end of get_moves, from "Check for no move" on, for any desired delta
Steer ==
    /\ world.pc = "ready"
    /\ \E y \in -MaxDelta..MaxDelta, x \in -MaxDelta..MaxDelta :
          LET r == MovesToward(y, x)
          IN  world' = [world EXCEPT !.pc = "steer",
                                     !.out = [ok |-> r.ok, y |-> r.y, x |-> r.x,
                                              mm |-> r.mm]]
    /\ UNCHANGED <<crit, spell, melee>>

AINext == WillRun \/ FindSafety \/ GetMovesAux \/ GetMoves \/ Steer

SpecAI == AIInit /\ [][AINext]_vars

\* the monster the decision is about
AIMon == world.mon[world.who]

\* p_val * m_mhp > m_val * p_mhp with p_val = p_lev * p_mhp + 4 * p_chp,
\* m_val = m_lev * m_mhp + 4 * m_chp, m_lev = level + (index & 8) + 25
StrongerPlayer ==
    LET m_lev == world.race[AIMon.race].level
                 + (IF (world.who \div 8) % 2 = 1 THEN 8 ELSE 0) + 25
        p_val == world.p.lev * world.p.mhp + 4 * world.p.chp
        m_val == m_lev * AIMon.maxhp + 4 * AIMon.hp
    IN  p_val * AIMon.maxhp > m_val * world.p.mhp

\* C18: for a monster without FEAR and with 5 < cdis <= MAX_SIGHT + 5,
\* mon_will_run returns true exactly when p_val * m_mhp > m_val * p_mhp, for
\* all levels and hit points, the level-difference shortcuts included
C18_RunsIffPlayerStronger ==
    (world.pc = "mon_will_run" /\ AIMon.m_timed.FEAR = 0
        /\ AIMon.cdis > 5 /\ AIMon.cdis <= MAX_SIGHT + 5) =>
        (world.out.ok <=> StrongerPlayer)

\* mon_will_run said yes by the shortcut m_lev + 4 <= p_lev for an unhurt
\* monster at distance 7 and a player without hit points
C18_Witness ==
    world.pc = "mon_will_run" /\ AIMon.m_timed.FEAR = 0 /\ AIMon.cdis = 7
        /\ world.p.lev = 30 /\ world.who = 1 /\ world.p.chp = 0
        /\ AIMon.hp = AIMon.maxhp /\ world.out.ok

\* the cells of the offset table of distance d around the cell f
RingOf(f, d) ==
    {<<f[1] + dist_offsets(d)[k][1], f[2] + dist_offsets(d)[k][2]>> :
        k \in 1..Len(dist_offsets(d))}

\* the cells of ring d that find_safety may flee to: fully in bounds,
\* passable, inside the flow window and out of the player's line of sight
SafeIn(d) ==
    {c \in RingOf(Pos(AIMon), d) :
        /\ square_in_bounds_fully(world, c)
        /\ square_ispassable(world, c)
        /\ world.when[c] >= world.when[PlayerPos(world)]
        /\ world.cost[c] <= world.cost[Pos(AIMon)] + 2 * d
        /\ ~player_has_los_bold(world, c)}

SafeCells == UNION {SafeIn(d) : d \in 1..9}

\* the cell find_safety points at, and how far from the player a cell is
SafetyTarget == <<AIMon.fy - world.out.y, AIMon.fx - world.out.x>>
FromPlayer(c) == distance(c, PlayerPos(world))

\* the place of a cell of ring d in the offset table
PlaceIn(d, c) ==
    CHOOSE k \in 1..Len(dist_offsets(d)) :
        c = <<AIMon.fy + dist_offsets(d)[k][1], AIMon.fx + dist_offsets(d)[k][2]>>

\* C15 (as claimed): find_safety returns, of all the qualifying cells of the
\* rings 1 to 9, one farthest from the player; for a monster at distance 7
\* the target is farther than 7 from the player whenever such a qualifying
\* cell exists
C15_FarthestOfAllRings ==
    world.pc = "find_safety" =>
        /\ SafeCells # {} =>
              /\ world.out.ok /\ SafetyTarget \in SafeCells
              /\ \A c \in SafeCells : FromPlayer(c) <= FromPlayer(SafetyTarget)
        /\ (AIMon.cdis = 7 /\ \E c \in SafeCells : FromPlayer(c) > 7) =>
              world.out.ok /\ FromPlayer(SafetyTarget) > 7

\* C15 (amended): find_safety succeeds exactly when some ring 1 to 9 holds a
\* qualifying cell; its target is then a qualifying cell of the innermost
\* such ring, farthest from the player among the qualifying cells of that
\* ring only, and the first such in the order of the offset table; on
\* failure the step handed in comes back unchanged
C15_FarthestOfNearestRing ==
    world.pc = "find_safety" =>
        /\ world.out.ok <=> SafeCells # {}
        /\ world.out.ok =>
              \E d \in 1..9 :
                  /\ \A e \in 1..(d - 1) : SafeIn(e) = {}
                  /\ SafetyTarget \in SafeIn(d)
                  /\ \A c \in SafeIn(d) :
                        \/ FromPlayer(c) < FromPlayer(SafetyTarget)
                        \/ /\ FromPlayer(c) = FromPlayer(SafetyTarget)
                           /\ PlaceIn(d, SafetyTarget) <= PlaceIn(d, c)
        /\ ~world.out.ok =>
              /\ world.out.y = AIMon.fy - world.p.py
              /\ world.out.x = AIMon.fx - world.p.px

\* a monster at distance 7 was sent to an adjacent cell 6 away from the
\* player although a qualifying cell farther than 7 lay in an outer ring
C15_Witness ==
    world.pc = "find_safety" /\ AIMon.cdis = 7 /\ world.out.ok
        /\ SafetyTarget \in SafeIn(1) /\ FromPlayer(SafetyTarget) = 6
        /\ \E c \in SafeCells : FromPlayer(c) > 7

\* the neighbour get_moves_aux chose, read back from the twiddled target
FlowChoice ==
    <<AIMon.fy + (world.out.y - world.p.py) \div 16,
      AIMon.fx + (world.out.x - world.p.px) \div 16>>

\* the neighbours of the monster that carry a flow stamp
Stamped == {c \in Around(Pos(AIMon)) : world.when[c] # 0}

\* the index i of the scan "for (i = 7; i >= 0; i--)" at which the
\* neighbour c is visited: 7 to 4 are the diagonals, 3 to 0 the cardinals
ScanIndex(c) ==
    CHOOSE k \in 0..7 : c = <<AIMon.fy + ddy_ddd(k), AIMon.fx + ddx_ddd(k)>>

\* c is as good as d by the rule claimed: a larger when, or the same when
\* and no larger cost
AsGoodAs(c, d) ==
    \/ world.when[c] > world.when[d]
    \/ world.when[c] = world.when[d] /\ world.cost[c] <= world.cost[d]

\* C19 (as claimed): the neighbour get_moves_aux selects has the largest
\* when of the stamped neighbours and, among those, the smallest cost; of
\* several such it is the one visited last, a cardinal direction
C19_LargestWhenSmallestCost ==
    (world.pc = "get_moves_aux" /\ world.out.ok) =>
        /\ FlowChoice \in Stamped
        /\ \A c \in Stamped : AsGoodAs(FlowChoice, c)
        /\ \A c \in Stamped \ {FlowChoice} :
              AsGoodAs(c, FlowChoice) =>
                  ScanIndex(FlowChoice) < ScanIndex(c) /\ ScanIndex(FlowChoice) <= 3

\* C19 (amended): the neighbour selected is stamped, and no neighbour
\* visited after it is both at least as recent and at most as costly; when
\* the stamped neighbours all carry one when, it has the smallest cost of
\* them and is the last visited of those with that cost
C19_LastNotOlderNotCostlier ==
    (world.pc = "get_moves_aux" /\ world.out.ok) =>
        /\ FlowChoice \in Stamped
        /\ \A c \in Stamped :
              ScanIndex(c) < ScanIndex(FlowChoice) =>
                  \/ world.when[c] < world.when[FlowChoice]
                  \/ world.cost[c] > world.cost[FlowChoice]
        /\ (\A c, d \in Stamped : world.when[c] = world.when[d]) =>
              \A c \in Stamped : world.cost[c] >= world.cost[FlowChoice]

\* get_moves_aux chose a neighbour with an old stamp, visited first, while
\* a neighbour with the newest stamp was there
C19_Witness ==
    world.pc = "get_moves_aux" /\ world.out.ok
        /\ world.when[FlowChoice] = 1
        /\ \E c \in Stamped : world.when[c] = 2

\* C20: when get_moves returns TRUE, mm[0..4] are five different keypad
\* directions out of 1, 2, 3, 4, 6, 7, 8, 9 and the first of them steps away
\* from the desired delta (y, x) on neither axis; get_moves returns FALSE
\* exactly when the desired delta is (0, 0)
C20_FiveDistinctDirections ==
    world.pc \in {"get_moves", "steer"} =>
        /\ world.out.ok <=> ~(world.out.y = 0 /\ world.out.x = 0)
        /\ world.out.ok =>
              /\ Len(world.out.mm) = 5
              /\ \A k \in 1..5 : world.out.mm[k] \in {1, 2, 3, 4, 6, 7, 8, 9}
              /\ \A j, k \in 1..5 : j # k => world.out.mm[j] # world.out.mm[k]
              /\ ddy(world.out.mm[1]) * world.out.y <= 0
              /\ ddx(world.out.mm[1]) * world.out.x <= 0

\* get_moves sent a monster that stands north-east of its target, mostly
\* east, to the west first, then south-west, north-west, south and north
C20_Witness ==
    world.pc = "get_moves" /\ world.out.ok
        /\ world.out.y < 0 /\ world.out.x > 2 * (-world.out.y)
        /\ world.out.mm = <<4, 1, 7, 2, 8>>

(***************************************************************************)
(* The 95% threshold of monster_critical                                   *)
(***************************************************************************)

\* C26 (as claimed): monster_critical returns 0 whenever the damage is below
\* 95% of dice * sides, that is whenever 20 * dam < 19 * dice * sides,
\* whatever the rolls
C26_ZeroBelow95Percent ==
    (crit.called /\ 20 * crit.dam < 19 * crit.dice * crit.sides) => crit.sev = 0

\* a call with a damage below 95% of dice * sides returned a critical
C26_Witness ==
    /\ crit.called
    /\ 20 * crit.dam < 19 * crit.dice * crit.sides
    /\ crit.dam >= (crit.dice * crit.sides * 19) \div 20
    /\ crit.sev > 0

(***************************************************************************)
(* The spell failure rate                                                  *)
(***************************************************************************)

\* what the call of make_attack_spell did when the failure rate was rate: the
\* spell failed exactly when it is not innate and the roll came out below the
\* rate, and a failed cast returned TRUE with no spell effect (no spell run,
\* no haste, nothing learned by the lore, the player alive)
CastUnderRate(rate) ==
    /\ spell.failed <=> (SpellTable[spell.thrown].id >= MIN_NONINNATE_SPELL
                         /\ spell.roll < rate)
    /\ spell.failed =>
          /\ spell.ret
          /\ spell.delegated = "NONE"
          /\ spell.m.fast = spell.fast0
          /\ spell.lore.spell_flags = {}
          /\ spell.lore.deaths = 0
          /\ ~spell.p.is_dead

\* C23 (as claimed): the failure rate is 25 - (race.level + 3) / 4, plus 20
\* under fear, for every race level >= 0, and 0 for a STUPID race; an innate
\* spell never fails and a failed cast returns TRUE without any spell effect
C23_FailRateFromRaceLevel ==
    (spell.phase = "cast" /\ spell.thrown # "NONE") =>
        CastUnderRate(IF "STUPID" \in spell.race.flags THEN 0
                      ELSE 25 - (spell.race.level + 3) \div 4
                           + (IF spell.m.fear > 0 THEN 20 ELSE 0))

\* C23 (amended): the same with the race level raised to 1 when it is below 1
C23_FailRateFromClampedLevel ==
    (spell.phase = "cast" /\ spell.thrown # "NONE") =>
        LET lev == IF spell.race.level >= 1 THEN spell.race.level ELSE 1
        IN  CastUnderRate(IF "STUPID" \in spell.race.flags THEN 0
                          ELSE 25 - (lev + 3) \div 4
                               + (IF spell.m.fear > 0 THEN 20 ELSE 0))

\* a monster of a level-0 race, not STUPID and not afraid, chose a spell that
\* is not innate, rolled 24 and cast it
C23_Witness ==
    /\ spell.phase = "cast" /\ spell.thrown # "NONE"
    /\ spell.race.level = 0 /\ "STUPID" \notin spell.race.flags
    /\ spell.m.fear = 0
    /\ SpellTable[spell.thrown].id >= MIN_NONINNATE_SPELL
    /\ spell.roll = 24 /\ ~spell.failed /\ spell.ret

(***************************************************************************)
(* The blow loop: the lore count and the hit roll                          *)
(***************************************************************************)

\* the lore counter of the blow made by this step, before and after it
BlowsBefore == melee.lore.blows[melee.ap_cnt + 1]
BlowsAfter == melee'.lore.blows[melee.ap_cnt + 1]

\* the blow made by this step was repelled by protection from evil
Repelled == melee'.last.hit /\ ~melee'.last.landed

\* the step leaves the lore counters of the other blows alone
OtherBlowsKept ==
    \A j \in 1..MONSTER_BLOW_MAX :
        j # melee.ap_cnt + 1 => melee'.lore.blows[j] = melee.lore.blows[j]

\* C24 (as claimed): blows[i] is incremented (by 1, saturating) in the
\* iteration of blow i exactly when the monster is visible and the blow was
\* obvious or did damage; a blow that missed, or was neither obvious nor
\* damaging, leaves blows[i] unchanged
C24_CountedIffObviousOrDamaging ==
    [][BlowStep =>
          /\ BlowsAfter = IF melee'.last.visible
                             /\ (melee'.last.obvious \/ melee'.last.damage # 0)
                          THEN SatInc(BlowsBefore, MAX_UCHAR) ELSE BlowsBefore
          /\ ~melee'.last.hit => BlowsAfter = BlowsBefore
          /\ OtherBlowsKept]_vars

\* C24 (amended): blows[i] is incremented (by 1, saturating) in the iteration
\* of blow i exactly when the blow was not repelled, the monster is visible
\* and the blow was obvious, did damage, or had been counted more than 10
\* times before; so a missed blow is counted too once blows[i] exceeds 10
C24_CountedAlsoWhenFamiliar ==
    [][BlowStep =>
          /\ BlowsAfter = IF ~Repelled /\ melee'.last.visible
                             /\ (melee'.last.obvious \/ melee'.last.damage # 0
                                 \/ BlowsBefore > 10)
                          THEN SatInc(BlowsBefore, MAX_UCHAR) ELSE BlowsBefore
          /\ OtherBlowsKept]_vars

\* a visible monster's blow missed and was counted: its counter went from 11
\* to 12
C24_Witness ==
    /\ melee.phase = "blows" /\ melee.ap_cnt = 1
    /\ melee.last.visible /\ ~melee.last.hit
    /\ ~melee.last.obvious /\ melee.last.damage = 0
    /\ melee.lore.blows[1] = 12 /\ melee.lore.blows[2] = 11

\* a blow that missed ran no effect handler and did no damage: the player,
\* the monster and the blink are as before, and the loop goes on
MissedBlowDoesNothing ==
    ~melee'.last.hit =>
        /\ melee'.p = melee.p
        /\ melee'.m = melee.m
        /\ melee'.blinked = melee.blinked
        /\ ~melee'.stop
        /\ ~melee'.last.bell
        /\ melee'.last.damage = 0

\* C25 (as claimed): the to-hit roll is made only for blows whose effect has
\* power > 0; a blow whose effect has power 0 always lands without a hit
\* roll, and a blow that fails its roll runs no effect handler and does no
\* damage
C25_RollOnlyForPositivePower ==
    [][BlowStep =>
          /\ melee'.last.hit <=>
                (monster_blow_effect_power(melee'.last.effect) = 0
                 \/ melee'.last.roll)
          /\ MissedBlowDoesNothing]_vars

\* C25 (amended): the to-hit roll is made for every blow whose effect is not
\* RBE_NONE, also when the power of the effect is 0; only a blow with effect
\* RBE_NONE always lands without a hit roll, and a blow that fails its roll
\* runs no effect handler and does no damage
C25_RollUnlessEffectNone ==
    [][BlowStep =>
          /\ melee'.last.hit <=>
                (melee'.last.effect = "NONE" \/ melee'.last.roll)
          /\ MissedBlowDoesNothing]_vars

\* a blow whose effect has power 0, and is not RBE_NONE, failed its hit roll
C25_Witness ==
    /\ melee.phase = "blows" /\ melee.ap_cnt > 0
    /\ melee.last.effect # "NONE"
    /\ monster_blow_effect_power(melee.last.effect) = 0
    /\ ~melee.last.roll /\ ~melee.last.hit /\ ~melee.last.landed

(***************************************************************************)
(* The passes of process_monster: breeding, doors, bodies, walls           *)
(***************************************************************************)

\* the step from the unprimed to the primed cave is an iteration of the scan
PassStep == world.pc = "scan" /\ world'.pc = "scan" /\ world'.i # world.i

\* the monsters on the 8 cells around c, the cell c itself left out
OccupiedNeighbours(w, c) ==
    Cardinality({n \in Rect(c[1] - 1, c[1] + 1, c[2] - 1, c[2] + 1) \ {c} :
                    w.m_idx[n] > 0})

\* C27 (as claimed): in the reproduce step k is the number of occupied cells
\* among the monster's 8 neighbours, the monster itself not counted; a
\* MULTIPLY monster with no occupied neighbour always attempts to spawn; and
\* a successful spawn ends the pass with no spell and no move
C27_CountsNeighboursOnly ==
    [][(PassStep /\ world'.hist.last.k >= 0) =>
          LET i == world.i
              nb == OccupiedNeighbours(world, Pos(world.mon[i]))
              last == world'.hist.last
          IN  /\ last.k = nb
              /\ ("MULTIPLY" \in world.race[world.mon[i].race].flags /\ nb = 0)
                    => last.breed # "none"
              /\ last.breed = "born" =>
                    /\ ~last.spelled /\ ~last.moved /\ last.tries = 0
                    /\ last.attacks = 0
                    /\ world'.hist.cast = world.hist.cast
                    /\ Pos(world'.mon[i]) = Pos(world.mon[i])]_vars

\* a MULTIPLY monster with none of its 8 neighbours occupied went through the
\* reproduce step with k = 1, made no attempt to spawn and went on to move
C27_Witness ==
    /\ world.pc = "scan" /\ world.hist.last.who > 0
    /\ Live(world, world.hist.last.who)
    /\ "MULTIPLY" \in world.race[world.mon[world.hist.last.who].race].flags
    /\ world.hist.last.k = 1 /\ world.hist.last.breed = "none"
    /\ world.hist.last.moved
    /\ \A j \in 1..MaxMon :
          (j # world.hist.last.who /\ Live(world, j))
             => distance(Pos(world.mon[j]), world.hist.last.from) > 1

\* the race flags of the monster of the pass made by this step
PassFlags == world.race[world.mon[world.i].race].flags

\* the monster of the pass can take the cell c as far as its occupant goes:
\* nobody stands there, or a weaker monster it may kill or push past
CanDisplace(c) ==
    LET j == world.m_idx[c]
    IN  \/ j <= 0
        \/ /\ compare_monsters(world, world.i, j) > 0
           /\ \/ "KILL_BODY" \in PassFlags
              \/ /\ "MOVE_BODY" \in PassFlags
                 /\ square_ispassable(world, Pos(world.mon[world.i]))

\* C21 (as claimed): when a race with BASH_DOOR steps at a closed or secret
\* door and the coinflip says bash, the door is smashed and the monster moves
\* into the doorway in that same pass; otherwise a race that can open or
\* bash opens an unlocked door without moving; in every case the turn is
\* consumed
C21_BashedDoorIsEntered ==
    [][(PassStep /\ world'.hist.last.doors > 0) =>
          LET last == world'.hist.last
              c == last.cell
          IN  /\ last.turn
              /\ last.flip =>
                    /\ world'.feat[c] = "BROKEN"
                    /\ last.moved /\ last.to = c
              /\ last.door = "open" =>
                    /\ world'.feat[c] = "OPEN"
                    /\ ~last.moved]_vars

\* C21 (amended): a door is bashed when the coinflip says bash and the door
\* is not locked; a bashed door is smashed, and the monster moves into the
\* doorway in that same pass unless it is NEVER_MOVE or a monster it can
\* neither kill nor push past stands in the doorway; a race that can open or
\* bash and does not bash opens an unlocked door without moving; a locked
\* door, whatever the coinflip, and a door the race can neither open nor
\* bash stay shut; in every case the pass handles one door only and the
\* turn is consumed
C21_BashedDoorIsEnteredIfFree ==
    [][(PassStep /\ world'.hist.last.doors > 0) =>
          LET last == world'.hist.last
              c == last.cell
              doorman == PassFlags \cap {"OPEN_DOOR", "BASH_DOOR"} # {}
          IN  /\ last.turn /\ last.doors = 1
              /\ PassFlags \cap {"PASS_WALL", "KILL_WALL"} = {}
              /\ square_iscloseddoor(world, c) \/ square_issecretdoor(world, c)
              /\ last.flip => "BASH_DOOR" \in PassFlags
              /\ last.door = "bash" <=> (last.flip /\ ~square_islockeddoor(world, c))
              /\ last.door = "bash" =>
                    /\ world'.feat[c] = "BROKEN"
                    /\ last.moved <=> ("NEVER_MOVE" \notin PassFlags /\ CanDisplace(c))
                    /\ last.moved => last.to = c
              /\ last.door = "open" =>
                    /\ doorman /\ ~square_islockeddoor(world, c)
                    /\ world'.feat[c] = "OPEN"
                    /\ ~last.moved
              /\ last.door = "locked" =>
                    /\ doorman /\ square_islockeddoor(world, c)
                    /\ world'.feat[c] \in {world.feat[c], LowerDoor(world.feat[c])}
                    /\ ~last.moved
              /\ last.door = "shut" =>
                    /\ ~doorman
                    /\ world'.feat[c] = world.feat[c]
                    /\ ~last.moved
              /\ last.door \in {"bash", "open", "locked", "shut"}]_vars

\* a NEVER_MOVE monster bashed a door open and stayed where it was
C21_Witness ==
    /\ world.pc = "scan" /\ world.hist.last.who > 0
    /\ world.hist.last.door = "bash" /\ world.hist.last.turn
    /\ world.feat[world.hist.last.cell] = "BROKEN"
    /\ ~world.hist.last.moved
    /\ "NEVER_MOVE" \in world.race[world.mon[world.hist.last.who].race].flags

\* the monsters of the cave other than the one of the pass keep their slots
\* and their cells
OthersKeepCells ==
    \A j \in 1..MaxMon :
        (j # world.i /\ Live(world, j)) =>
            /\ Live(world', j)
            /\ Pos(world'.mon[j]) = Pos(world.mon[j])
            /\ world'.m_idx[Pos(world.mon[j])] = j

\* C22: a monster is deleted or displaced by another monster's step only if
\* the mover's race mexp is strictly greater than the occupant's and the
\* mover is not NEVER_MOVE: with KILL_BODY the occupant is deleted and the
\* mover steps in; otherwise with MOVE_BODY and the mover's own cell passable
\* the two are swapped; in every other case the step is blocked and both
\* monsters keep their cells
C22_OnlyWeakerBodiesGiveWay ==
    [][PassStep =>
          LET i == world.i
              last == world'.hist.last
              o == last.from
              n == last.to
              j == world.m_idx[n]
              stronger == compare_monsters(world, i, j) > 0
              kill_ok == "KILL_BODY" \in PassFlags
              move_ok == "MOVE_BODY" \in PassFlags
                         /\ square_ispassable(world, Pos(world.mon[i]))
          IN  IF last.moved /\ j > 0
              THEN /\ world.race[world.mon[i].race].mexp
                         > world.race[world.mon[j].race].mexp
                   /\ "NEVER_MOVE" \notin PassFlags
                   /\ kill_ok \/ move_ok
                   /\ world'.m_idx[n] = i /\ Pos(world'.mon[i]) = n
                   /\ IF kill_ok
                      THEN /\ ~Live(world', j)
                           /\ world'.m_idx[o] = 0
                           /\ last.kind = "trample"
                      ELSE /\ Live(world', j)
                           /\ Pos(world'.mon[j]) = o
                           /\ world'.m_idx[o] = j
                           /\ last.kind = "push"
                   /\ \A l \in 1..MaxMon :
                         (l \notin {i, j} /\ Live(world, l)) =>
                             Live(world', l) /\ Pos(world'.mon[l]) = Pos(world.mon[l])
              ELSE OthersKeepCells /\ last.kind \notin {"trample", "push"}]_vars

\* a mover with MOVE_BODY alone, standing in granite next to a weaker monster
\* that bars its way to the player, was blocked there and went another way:
\* the weaker monster kept its cell
C22_Witness ==
    /\ world.pc = "scan" /\ world.calls = 1 /\ world.hist.last.who = 2
    /\ world.scene.xkind = "fromwall"
    /\ world.race.A.flags = {"PASS_WALL", "MOVE_BODY"}
    /\ world.race.A.mexp > world.race.B.mexp
    /\ world.hist.last.tries >= 2 /\ world.hist.last.kind = "none"
    /\ world.hist.last.from = <<1, 1>> /\ world.feat[<<1, 1>>] = "GRANITE"
    /\ Pos(world.mon[2]) # <<1, 2>>
    /\ Live(world, 1) /\ Pos(world.mon[1]) = <<1, 2>> /\ world.m_idx[<<1, 2>>] = 1

\* C30 (as claimed): a KILL_WALL monster destroys a wall, door or rubble cell
\* only in a pass in which it then moves into that cell; if the step is
\* afterwards blocked the terrain is left intact, so at most one cell of
\* terrain is destroyed per pass
C30_DestroysOnlyWhereItMoves ==
    [][PassStep =>
          LET last == world'.hist.last
              changed == {c \in DOMAIN world.feat :
                             /\ ~square_ispassable(world, c)
                             /\ world'.feat[c] = "FLOOR"}
          IN  /\ last.razed = Cardinality(changed)
              /\ last.razed <= 1
              /\ last.razed > 0 =>
                    /\ "KILL_WALL" \in PassFlags
                    /\ last.moved /\ last.to = last.cell
                    /\ last.cell \in changed]_vars

\* C30 (amended): a KILL_WALL monster that does not pass walls destroys every
\* wall, door or rubble cell it steps at, before the step is decided; a
\* destroyed cell is the cell the monster then moves into, unless the
\* monster never moves or a monster it can neither kill nor push past
\* stands in that cell, and then the terrain stays destroyed and the next
\* direction is tried, so that one pass may destroy up to five cells
C30_DestroysWhereItStepsAt ==
    [][PassStep =>
          LET last == world'.hist.last
              changed == {c \in DOMAIN world.feat :
                             /\ ~square_ispassable(world, c)
                             /\ world'.feat[c] = "FLOOR"}
          IN  /\ last.razed = Cardinality(changed)
              /\ last.razed <= 5
              /\ last.razed > 0 =>
                    /\ "KILL_WALL" \in PassFlags /\ "PASS_WALL" \notin PassFlags
                    /\ last.cell \in changed
              /\ \A c \in changed :
                    /\ ~square_isperm(world, c)
                    /\ distance(c, Pos(world.mon[world.i])) = 1
                    /\ \/ last.moved /\ last.to = c
                       \/ "NEVER_MOVE" \in PassFlags
                       \/ ~CanDisplace(c)]_vars

\* a KILL_WALL monster destroyed the granite next to it in a pass in which
\* it did not move: it never moves, or a monster that is not weaker stood in
\* the granite
C30_Witness ==
    /\ world.pc = "scan" /\ world.calls = 1 /\ world.hist.last.who = 2
    /\ "KILL_WALL" \in world.race.A.flags
    /\ world.scene.xkind \in {"granite", "lurker"}
    /\ world.hist.last.razed >= 1
    /\ world.feat[<<1, 2>>] = "FLOOR"
    /\ ~world.hist.last.moved /\ Pos(world.mon[2]) = <<1, 1>>

\* what the pass made by this step did that takes a turn: spawned a copy,
\* had a spell attempt return TRUE, called make_attack_normal, handled a
\* door, stepped
TurnActions(last) ==
    (IF last.breed = "born" THEN 1 ELSE 0) + (IF last.spelled THEN 1 ELSE 0)
        + last.attacks + last.doors + last.steps

\* C28 (as claimed): in one pass a monster performs at most one
\* turn-consuming action among spawning a copy, a spell attempt that
\* returned TRUE, one melee attack, one door interaction and one step; once
\* any of them happens no further direction is tried; and a pass in which
\* make_attack_normal ran never also moves the monster by a step
C28_AtMostOneAction ==
    [][PassStep =>
          LET last == world'.hist.last
          IN  /\ TurnActions(last) <= 1
              /\ last.late = 0
              /\ last.attacks > 0 => ~last.moved]_vars

\* C28 (amended): the same, except that a door that is bashed open is
\* followed by the step into the doorway in the same iteration of the loop:
\* a pass performs at most one of spawn, spell, melee attack and step, and at
\* most one door interaction, which is followed by a step only when the door
\* was bashed, and then by the step into that doorway
C28_AtMostOneActionButBash ==
    [][PassStep =>
          LET last == world'.hist.last
          IN  /\ TurnActions(last) - last.doors <= 1
              /\ last.doors <= 1
              /\ (last.doors = 1 /\ TurnActions(last) > 1) =>
                    /\ last.door = "bash"
                    /\ TurnActions(last) = 2
                    /\ last.steps = 1 /\ last.to = last.cell
              /\ last.late = 0
              /\ last.breed = "born" \/ last.spelled => last.tries = 0
              /\ last.attacks > 0 => ~last.moved
              /\ last.steps > 0 <=> last.moved
              /\ TurnActions(last) > 0 <=>
                    (last.turn \/ last.breed = "born" \/ last.spelled)]_vars

\* a monster bashed a door open and stepped into the doorway in one pass,
\* and tried no other direction
C28_Witness ==
    /\ world.pc = "scan" /\ world.hist.last.who > 0
    /\ world.hist.last.door = "bash" /\ world.hist.last.doors = 1
    /\ world.hist.last.steps = 1 /\ world.hist.last.moved
    /\ world.hist.last.to = world.hist.last.cell
    /\ world.feat[world.hist.last.cell] = "BROKEN"
    /\ world.hist.last.tries = 1 /\ world.hist.last.late = 0
    /\ world.hist.last.attacks = 0 /\ ~world.hist.last.spelled

(***************************************************************************)
(* The energy used up by a call of process_monsters                        *)
(***************************************************************************)

\* the scan of the current call has gone past slot j
Reached(w, j) == j < w.hist.max0 /\ j > w.i

\* C29: in a call of process_monsters the energy of every live monster with
\* energy >= minimum_energy is lowered by exactly 100 when the scan reaches
\* its slot, whether the monster is then processed or not, and the energy of
\* every monster with less energy and of every dead slot is left unchanged;
\* so after a call that the player's leaving did not cut short, every slot
\* having been reached, this holds of every monster that lives through the
\* call
C29_EnergyLoweredBy100 ==
    (world.pc \in {"scan", "idle"} /\ world.calls > 0) =>
        \A j \in 1..MaxMon :
            LET before == world.hist.mon0[j]
                now == world.mon[j]
            IN  /\ (before.race # "NULL" /\ Live(world, j)) =>
                      now.energy = IF Reached(world, j) /\ before.energy >= world.min
                                   THEN before.energy - 100 ELSE before.energy
                /\ (before.race = "NULL" /\ ~Live(world, j)) =>
                      now.energy = before.energy

\* a call returned, not cut short, in which a monster had the energy for a
\* turn, met none of the four conditions and so was not processed, and had
\* lost 100 of its energy
C29_Witness ==
    /\ world.pc = "idle" /\ world.calls > 0 /\ ~world.p.leaving /\ world.i = 0
    /\ \E j \in 1..MaxMon :
          /\ Live(world, j) /\ world.hist.mon0[j].race # "NULL"
          /\ world.hist.mon0[j].energy >= world.min
          /\ world.mon[j].energy = world.hist.mon0[j].energy - 100
          /\ VisitCount(world, j) = 0
          /\ ~ShouldProcess(world, j)

=============================================================================
